---- MODULE Spec2Model ----
(***************************************************************************)
(* Verification model of ft-holdings-sectors.                              *)
(*                                                                         *)
(* Part I   Temporal diff engine        src/db.py  (_compute_diffs)        *)
(* Part II  Record enrichment            src/peer_analytics.py             *)
(* Part III Peer comparison engine       src/peer_analytics.py             *)
(* Part IV  Loading of the temporal facts src/db.py (get_comparison_data)  *)
(* Part V   Bloomberg ingestion          src/bloomberg_loader.py           *)
(* Part VI  Scraper retry loop           src/scraper.py                    *)
(*                                                                         *)
(* Numbers.  A percentage is an integer count of 1/10000 of a percent (the *)
(* scraper stores round(float, 4)).  An optional number is Null (pandas    *)
(* None / NaN) or Some(v).                                                 *)
(* A log_date is a day number; ISO date strings compare like day numbers.  *)
(***************************************************************************)
EXTENDS Integers, Sequences, FiniteSets, TLC

VARIABLES
    df, dates, details, prev_details,   \* temporal diff engine
    holdings_df, master_df, enriched,   \* record enrichment
    peer_df, result,                    \* peer comparison engine
    table, fetched,                     \* holdings_sectors_log and the rows read from it
    bbg, summary,                       \* Bloomberg tables and the last ingest's outcome
    config, url_i, attempt,             \* scraper: configuration and loop counters
    entries, scrape_log,                \* scraper: collected entries and attempt log
    pc                                  \* position of the running scenario

diffVars   == <<df, dates, details, prev_details>>
enrichVars == <<holdings_df, master_df, enriched>>
peerVars   == <<peer_df, result>>
loadVars   == <<table, fetched>>
ingestVars == <<bbg, summary>>
scrapeVars == <<config, url_i, attempt, entries, scrape_log>>
vars == <<diffVars, enrichVars, peerVars, loadVars, ingestVars, scrapeVars, pc>>

Null == <<>>
Some(v) == <<v>>
Val(o) == o[1]

\* A missing text value (None / NaN in an object column).
NoneStr == "None"

\* The value of the variables a scenario does not use.
Idle == <<>>

DiffIdle   == df = Idle /\ dates = Idle /\ details = Idle /\ prev_details = Idle
EnrichIdle == holdings_df = Idle /\ master_df = Idle /\ enriched = Idle
PeerIdle   == peer_df = Idle /\ result = Idle
LoadIdle   == table = Idle /\ fetched = Idle
IngestIdle == bbg = Idle /\ summary = Idle
ScrapeIdle ==
    /\ config = Idle /\ url_i = Idle /\ attempt = Idle
    /\ entries = Idle /\ scrape_log = Idle

\* Default length of the comparison window (num_snapshots).
NumSnapshots == 4

\* Largest number of facts in the window that the model enumerates.
MaxFacts == 3

(***************************************************************************)
(* Input universe of the temporal diff engine.                             *)
(***************************************************************************)
\* Comparison keys (fund_name, category, company_sector).
KeyUniverse ==
    { <<"FundA", "Holdings", "X">>,
      <<"FundA", "Holdings", "Y">>,
      <<"FundB", "Sectors", "X">> }

\* Stored percentages: 1.0000, 1.2345, and a missing value.
Percentages == {Null, Some(10000), Some(12345)}

\* Text collation used by ORDER BY (binary order of the names used here).
Collation ==
    <<"A", "Alquity", "B", "C", "China", "Energy", "Financials", "FundA",
      "FundB", "Holdings", "India", "Peer1", "Peer2", "Peer3", "Sectors", "X", "Y">>

Rank(s) == CHOOSE i \in DOMAIN Collation : Collation[i] = s

\* The page a fund is scraped from.
UrlOf(fund) == IF fund = "FundA" THEN "https://ft/FundA" ELSE "https://ft/FundB"

\* One row of holdings_sectors_log as selected by get_comparison_data.
Fact(d, k, p) ==
    [ log_date       |-> d,
      category       |-> k[2],
      fund_name      |-> k[1],
      company_sector |-> k[3],
      percentage     |-> p,
      date_of_data   |-> d,
      url            |-> UrlOf(k[1]) ]

\* ORDER BY category, log_date, fund_name, company_sector
QueryLess(a, b) ==
    LET ka == <<Rank(a.category), a.log_date, Rank(a.fund_name), Rank(a.company_sector)>>
        kb == <<Rank(b.category), b.log_date, Rank(b.fund_name), Rank(b.company_sector)>>
        RECURSIVE Lex(_)
        Lex(i) == IF i > 4 THEN FALSE
                  ELSE IF ka[i] < kb[i] THEN TRUE
                  ELSE IF ka[i] > kb[i] THEN FALSE
                  ELSE Lex(i + 1)
    IN  Lex(1)

RECURSIVE QuerySorted(_)
QuerySorted(S) ==
    IF S = {} THEN <<>>
    ELSE LET m == CHOOSE x \in S : \A y \in S : x = y \/ QueryLess(x, y)
         IN  <<m>> \o QuerySorted(S \ {m})

(***************************************************************************)
(* Helpers on frames (sequences of row records).                           *)
(***************************************************************************)
KeyOf(r) == <<r.fund_name, r.category, r.company_sector>>

KeysOf(frame) == { KeyOf(frame[j]) : j \in DOMAIN frame }

\* df[df["log_date"] == d]
RowsAt(frame, d) == SelectSeq(frame, LAMBDA r : r.log_date = d)

RECURSIVE Concat(_)
Concat(frames) ==
    IF frames = <<>> THEN <<>> ELSE Head(frames) \o Concat(Tail(frames))

\* All orders in which a Python set with the elements S can be iterated.
SeqPerms(S) ==
    { s \in [1..Cardinality(S) -> S] : \A x \in S : \E i \in DOMAIN s : s[i] = x }

OutRow(r, pp, d, n, rm, rt) ==
    [ log_date        |-> r.log_date,
      category        |-> r.category,
      fund_name       |-> r.fund_name,
      company_sector  |-> r.company_sector,
      percentage      |-> r.percentage,
      date_of_data    |-> r.date_of_data,
      url             |-> r.url,
      prev_percentage |-> pp,
      diff            |-> d,
      is_new          |-> n,
      is_removed      |-> rm,
      is_returning    |-> rt ]

(***************************************************************************)
(* _compute_diffs                                                          *)
(***************************************************************************)
\* round(x, 2) on a value held in 1/10000: nearest multiple of 100, exact
\* ties to the even hundredth.
Round2(x) ==
    LET q == x \div 100
        r == x % 100
    IN  IF r < 50 THEN q * 100
        ELSE IF r > 50 THEN (q + 1) * 100
        ELSE IF q % 2 = 0 THEN q * 100 ELSE (q + 1) * 100

\* Mutant of Baseline: the first date handled like a date without a
\* predecessor match, every row flagged new.
BaselineAllNew(current) ==
    [ j \in DOMAIN current |-> OutRow(current[j], Null, Null, TRUE, FALSE, FALSE) ]

\* i == 0: the baseline rows.
Baseline(current) ==
    [ j \in DOMAIN current |-> OutRow(current[j], Null, Null, FALSE, FALSE, FALSE) ]

\* Mutant of PrevDate: always compare against the oldest date of the window.
PrevDateOldest(ds, i) == ds[1]

\* Mutant of PrevDate: from the third date on, the date before the previous.
PrevDateTwoAgo(ds, i) == IF i >= 3 THEN ds[i - 2] ELSE ds[i - 1]

\* prev_date = dates[i - 1]   (i is the 1-based position in dates)
PrevDate(ds, i) == ds[i - 1]

\* Mutant of MergeLeft: an inner join, which drops the rows without a match.
RECURSIVE MergeInner(_, _)
MergeInner(current, prev) ==
    IF current = <<>> THEN <<>>
    ELSE LET r == Head(current)
             m == SelectSeq(prev, LAMBDA p : KeyOf(p) = KeyOf(r))
         IN  [ j \in DOMAIN m |-> <<r, m[j].percentage>> ]
             \o MergeInner(Tail(current), prev)

\* current.merge(prev[[keys, percentage]], on=keys, how="left"): one output
\* row per matching prev row, or one row with a missing prev_percentage.
RECURSIVE MergeLeft(_, _)
MergeLeft(current, prev) ==
    IF current = <<>> THEN <<>>
    ELSE LET r == Head(current)
             m == SelectSeq(prev, LAMBDA p : KeyOf(p) = KeyOf(r))
             rows == IF m = <<>> THEN << <<r, Null>> >>
                     ELSE [ j \in DOMAIN m |-> <<r, m[j].percentage>> ]
         IN  rows \o MergeLeft(Tail(current), prev)

\* round(percentage - prev_percentage, 2) if notna(prev_percentage) else None;
\* a NaN current percentage propagates through the subtraction.
DiffOf(cur, pp) ==
    IF pp # Null
    THEN IF cur = Null THEN Null ELSE Some(Round2(Val(cur) - Val(pp)))
    ELSE Null

\* merged["is_new"] = merged["prev_percentage"].isna()
IsNew(pp) == pp = Null

\* Mutant of IsReturning: the key was present two dates ago, whether or not
\* the row is new.
IsReturningAnyRow(i, is_new, key, frame, ds) ==
    IF i >= 3
    THEN key \in KeysOf(RowsAt(frame, ds[i - 2]))
    ELSE FALSE

\* i >= 2 (0-based): is_new and key in two_ago_keys; else False.
IsReturning(i, is_new, key, frame, ds) ==
    IF i >= 3
    THEN is_new /\ key \in KeysOf(RowsAt(frame, ds[i - 2]))
    ELSE FALSE

Merged(frame, ds, i) ==
    LET current == RowsAt(frame, ds[i])
        prev    == RowsAt(frame, PrevDate(ds, i))
        m       == MergeLeft(current, prev)
    IN  [ j \in DOMAIN m |->
            LET r  == m[j][1]
                pp == m[j][2]
            IN  OutRow(r, pp, DiffOf(r.percentage, pp), IsNew(pp), FALSE,
                       IsReturning(i, IsNew(pp), KeyOf(r), frame, ds)) ]

\* Mutant of RemovedKeys: the current keys are not subtracted.
RemovedKeysNoSubtract(prev, current) == KeysOf(prev)

\* removed_keys = prev_keys - current_keys
RemovedKeys(prev, current) == KeysOf(prev) \ KeysOf(current)

RemovedKeysAt(frame, ds, i) ==
    IF i = 1 THEN {}
    ELSE RemovedKeys(RowsAt(frame, PrevDate(ds, i)), RowsAt(frame, ds[i]))

\* The synthesized row of one removed key.
RemovedRow(key, prev, current_date) ==
    LET prev_row == Head(SelectSeq(prev, LAMBDA p : KeyOf(p) = key))
    IN  [ log_date        |-> current_date,
          category        |-> key[2],
          fund_name       |-> key[1],
          company_sector  |-> key[3],
          percentage      |-> Null,
          date_of_data    |-> prev_row.date_of_data,
          url             |-> prev_row.url,
          prev_percentage |-> prev_row.percentage,
          diff            |-> Null,
          is_new          |-> FALSE,
          is_removed      |-> TRUE,
          is_returning    |-> FALSE ]

\* The rows appended to results by iteration i; order is the order in which
\* `for fund, cat, comp in removed_keys` visits the set.
Iteration(frame, ds, i, order) ==
    IF i = 1 THEN Baseline(RowsAt(frame, ds[1]))
    ELSE Merged(frame, ds, i)
         \o [ j \in DOMAIN order |->
                RemovedRow(order[j], RowsAt(frame, PrevDate(ds, i)), ds[i]) ]

\* pd.concat(results, ignore_index=True); pick[i] is the set order of iteration i.
ComputeDiffs(frame, ds, pick) ==
    Concat([ i \in DOMAIN ds |-> Iteration(frame, ds, i, pick[i]) ])

\* The iteration orders the interpreter can produce for the removed-key sets
\* (str hashing is randomized per process).
RECURSIVE SetOrders(_, _, _)
SetOrders(frame, ds, i) ==
    IF i > Len(ds) THEN { <<>> }
    ELSE { <<p>> \o rest : p \in SeqPerms(RemovedKeysAt(frame, ds, i)),
                           rest \in SetOrders(frame, ds, i + 1) }

(***************************************************************************)
(* Specification of the temporal diff engine.                              *)
(***************************************************************************)
Cells(n) == (1..n) \X KeyUniverse

\* The window and the deduplicated, ordered facts handed to _compute_diffs.
InitDiff ==
    /\ \E n \in 1..NumSnapshots :
         /\ dates = [ i \in 1..n |-> i ]
         /\ \E S \in { T \in SUBSET Cells(n) : Cardinality(T) <= MaxFacts } :
              \E pct \in [S -> Percentages] :
                 df = QuerySorted({ Fact(c[1], c[2], pct[c]) : c \in S })
    /\ details = <<>>
    /\ prev_details = <<>>
    /\ pc = "loaded"
    /\ EnrichIdle /\ PeerIdle /\ LoadIdle /\ IngestIdle /\ ScrapeIdle

\* df = _compute_diffs(df, dates); run once, and once more on the same input.
RunComputeDiffs ==
    /\ pc \in {"loaded", "diffed"}
    /\ \E pick \in SetOrders(df, dates, 1) :
         details' = ComputeDiffs(df, dates, pick)
    /\ prev_details' = details
    /\ pc' = IF pc = "loaded" THEN "diffed" ELSE "rediffed"
    /\ UNCHANGED <<df, dates, enrichVars, peerVars, loadVars, ingestVars, scrapeVars>>

NextDiff == RunComputeDiffs

Spec == InitDiff /\ [][NextDiff]_vars

(***************************************************************************)
(* Properties of the temporal diff engine.                                 *)
(***************************************************************************)
Diffed == pc # "loaded"

\* Keys of the input facts at the i-th date of the window.
InKeys(i) == KeysOf(RowsAt(df, dates[i]))

\* The input fact of key k at the i-th date.
FactAt(i, k) == Head(SelectSeq(df, LAMBDA r : r.log_date = dates[i] /\ KeyOf(r) = k))

\* The output rows dated dates[i] that carry key k.
OutRowsFor(i, k) ==
    SelectSeq(details, LAMBDA r : r.log_date = dates[i] /\ KeyOf(r) = k)

\* C1: every output row dated at the oldest date of the window has
\* prev_percentage = null, diff = null and all three flags false, and no
\* synthesized row is dated at the oldest date (the rows of that date are
\* exactly the input facts of that date).
T_C1_BaselineRows ==
    Diffed =>
      /\ \A j \in DOMAIN details :
           details[j].log_date = dates[1] =>
             /\ details[j].prev_percentage = Null
             /\ details[j].diff = Null
             /\ details[j].is_new = FALSE
             /\ details[j].is_removed = FALSE
             /\ details[j].is_returning = FALSE
      /\ Len(RowsAt(details, dates[1])) = Len(RowsAt(df, dates[1]))
      /\ \A k \in KeyUniverse \ InKeys(1) : OutRowsFor(1, k) = <<>>

\* Witness of C1: a diffed window of three dates whose oldest date holds a
\* fact with a missing percentage and a key that disappears at the next date.
W_C1_BaselineRows ==
    /\ pc = "diffed"
    /\ Len(dates) >= 3
    /\ \E k \in InKeys(1) : FactAt(1, k).percentage = Null /\ k \notin InKeys(2)
    /\ InKeys(2) # {}

T_C3_PrevAndDiff ==
    Diffed =>
      \A i \in 2..Len(dates) : \A k \in InKeys(i) :
         LET rows == OutRowsFor(i, k)
             cur  == FactAt(i, k).percentage
             prev == IF k \in InKeys(i - 1) THEN FactAt(i - 1, k).percentage ELSE Null
         IN  /\ Len(rows) = 1
             /\ rows[1].prev_percentage = prev
             /\ rows[1].diff = IF prev # Null /\ cur # Null
                               THEN Some(Round2(Val(cur) - Val(prev)))
                               ELSE Null

\* Witness of C3: a key held at three consecutive dates with 1.2345, 1.0000
\* and 1.2345; its newest row has prev_percentage 1.0000 and diff 0.23.
W_C3_PrevAndDiff ==
    /\ pc = "diffed"
    /\ \E i \in 3..Len(dates) : \E k \in InKeys(i) :
         /\ k \in InKeys(i - 1) /\ k \in InKeys(i - 2)
         /\ FactAt(i - 2, k).percentage = Some(12345)
         /\ FactAt(i - 1, k).percentage = Some(10000)
         /\ FactAt(i, k).percentage = Some(12345)
         /\ OutRowsFor(i, k)[1].prev_percentage = Some(10000)
         /\ OutRowsFor(i, k)[1].diff = Some(2300)

T_C5_RemovedSynthesis ==
    Diffed =>
      \A i \in 2..Len(dates) :
         /\ \A k \in InKeys(i - 1) \ InKeys(i) :
              LET rows == OutRowsFor(i, k)
                  p    == FactAt(i - 1, k)
              IN  /\ Len(rows) = 1
                  /\ rows[1] = [ log_date        |-> dates[i],
                                 category        |-> k[2],
                                 fund_name       |-> k[1],
                                 company_sector  |-> k[3],
                                 percentage      |-> Null,
                                 date_of_data    |-> p.date_of_data,
                                 url             |-> p.url,
                                 prev_percentage |-> p.percentage,
                                 diff            |-> Null,
                                 is_new          |-> FALSE,
                                 is_removed      |-> TRUE,
                                 is_returning    |-> FALSE ]
         /\ \A k \in InKeys(i) :
              LET rows == OutRowsFor(i, k)
              IN  \A j \in DOMAIN rows : rows[j].is_removed = FALSE

\* Witness of C5: a date that drops one key of its predecessor while it
\* holds another fact, and the removed row is in the output.
W_C5_RemovedSynthesis ==
    /\ pc = "diffed"
    /\ \E i \in 2..Len(dates) :
         /\ InKeys(i) # {}
         /\ \E k \in InKeys(i - 1) \ InKeys(i) :
              /\ FactAt(i - 1, k).percentage # Null
              /\ Len(OutRowsFor(i, k)) = 1
              /\ OutRowsFor(i, k)[1].is_removed

\* The input columns of an output row.
InputPart(r) ==
    [ log_date       |-> r.log_date,
      category       |-> r.category,
      fund_name      |-> r.fund_name,
      company_sector |-> r.company_sector,
      percentage     |-> r.percentage,
      date_of_data   |-> r.date_of_data,
      url            |-> r.url ]

C6_Complete ==
    Diffed =>
      /\ \A i \in DOMAIN dates :
           LET out  == RowsAt(details, dates[i])
               orig == SelectSeq(out, LAMBDA r : ~r.is_removed)
               synt == SelectSeq(out, LAMBDA r : r.is_removed)
           IN  /\ [ j \in DOMAIN orig |-> InputPart(orig[j]) ] = RowsAt(df, dates[i])
               /\ out = orig \o synt
               /\ KeysOf(out) =
                    InKeys(i) \cup (IF i = 1 THEN {} ELSE InKeys(i - 1) \ InKeys(i))
               /\ Len(out) = Cardinality(KeysOf(out))
      /\ details = Concat([ i \in DOMAIN dates |-> RowsAt(details, dates[i]) ])

\* C6: the output is the concatenation, date by date in window order, of
\* the input facts of the date (each once, in input order, with log_date,
\* key, percentage, date_of_data and url unchanged) followed by the
\* synthesized rows; the keys of the rows of a date are the keys of the date
\* united with the keys of the preceding date that are absent at it; and no
\* step changes the input facts or the window.
T_C6_OutputComplete ==
    /\ []C6_Complete
    /\ [][df' = df /\ dates' = dates]_vars

\* Witness of C6: a diffed window in which a key continues from one date to
\* the next, and a later date brings a new key and drops a key; that later
\* date has its new row followed by its removed row.
W_C6_OutputComplete ==
    /\ pc = "diffed"
    /\ \E i \in 2..Len(dates) : InKeys(i) \cap InKeys(i - 1) # {}
    /\ \E i \in 2..Len(dates) :
         /\ InKeys(i) \ InKeys(i - 1) # {}
         /\ InKeys(i - 1) \ InKeys(i) # {}
         /\ Len(RowsAt(details, dates[i])) = 2
         /\ RowsAt(details, dates[i])[1].is_new
         /\ RowsAt(details, dates[i])[2].is_removed

\* C7 (as claimed): a second run of the diff engine on the same facts and
\* the same window returns the same rows in the same order as the first.
CX_C7_Idempotent ==
    pc = "rediffed" => details = prev_details

(***************************************************************************)
(* Part II.  Record enrichment: enrich_holdings.                           *)
(*                                                                         *)
(* A weight is an integer number of percent.                               *)
(***************************************************************************)
\* Largest number of raw holding rows and of master rows enumerated.
MaxHoldings == 3
MaxMaster == 2

Tickers == {"A", "B"}

\* Raw weights: an FX adjustment artifact, a zero position, a real position.
RawWeights == {-5, 0, 10}

\* country_derived of a holding comes from the exchange code in its ticker.
CountryDerived(ticker) == IF ticker = "A" THEN "India" ELSE NoneStr

\* Row j of the loaded holdings: the reference fund's rows and a peer's rows
\* alternate.
HoldingRow(j, ticker, weight) ==
    [ fund_name       |-> IF j % 2 = 1 THEN "Alquity" ELSE "Peer1",
      is_alquity      |-> IF j % 2 = 1 THEN 1 ELSE 0,
      ticker          |-> ticker,
      weight          |-> weight,
      country_derived |-> CountryDerived(ticker) ]

\* The two master records a ticker can have in the source sheet.
MasterRow(ticker, variant) ==
    IF variant = 1
    THEN [ ticker |-> ticker, short_name |-> "Name1", gics_industry |-> "Banks",
           gics_sector |-> "Financials", country_bbg |-> "CN",
           market_cap_usd |-> Some(2000000) ]
    ELSE [ ticker |-> ticker, short_name |-> "Name2", gics_industry |-> NoneStr,
           gics_sector |-> NoneStr, country_bbg |-> "ZZ",
           market_cap_usd |-> Null ]

MasterRows == { MasterRow(t, v) : t \in Tickers, v \in {1, 2} }

\* get_country_from_bbg_code: the display name of a known country code.
CountryFromBbgCode(code) ==
    IF code = "CN" THEN "China"
    ELSE IF code = "IN" THEN "India"
    ELSE NoneStr

\* Mutant of PositiveWeight: zero-weight rows are kept.
NonNegativeWeight(frame) == SelectSeq(frame, LAMBDA r : r.weight >= 0)

\* holdings_df[holdings_df["weight"] > 0]
PositiveWeight(frame) == SelectSeq(frame, LAMBDA r : r.weight > 0)

\* Mutant of DropDuplicatesTicker: the master data is joined as supplied.
KeepDuplicatesTicker(master) == master

\* Mutant of DropDuplicatesTicker: the last record of a ticker is kept.
RECURSIVE KeepLastTicker(_)
KeepLastTicker(master) ==
    IF master = <<>> THEN <<>>
    ELSE LET rest == KeepLastTicker(Tail(master))
         IN  IF \E j \in DOMAIN rest : rest[j].ticker = Head(master).ticker
             THEN rest
             ELSE <<Head(master)>> \o rest

\* master_df.drop_duplicates("ticker", keep="first")
RECURSIVE DropDuplicatesTicker(_)
DropDuplicatesTicker(master) ==
    IF master = <<>> THEN <<>>
    ELSE LET rest == DropDuplicatesTicker(SubSeq(master, 1, Len(master) - 1))
             last == master[Len(master)]
         IN  IF \E j \in DOMAIN rest : rest[j].ticker = last.ticker
             THEN rest
             ELSE Append(rest, last)

\* Mutant of ResolveCountry: the exchange-derived country comes first.
DerivedFirst(country_master, country_derived) ==
    IF country_derived # NoneStr THEN country_derived ELSE country_master

\* df["country_master"].fillna(df["country_derived"])
ResolveCountry(country_master, country_derived) ==
    IF country_master # NoneStr THEN country_master ELSE country_derived

\* The columns of one joined row; m is the matching master record or Null.
EnrichedRow(h, m) ==
    LET short_name     == IF m = Null THEN NoneStr ELSE Val(m).short_name
        gics_industry  == IF m = Null THEN NoneStr ELSE Val(m).gics_industry
        gics_sector    == IF m = Null THEN NoneStr ELSE Val(m).gics_sector
        country_bbg    == IF m = Null THEN NoneStr ELSE Val(m).country_bbg
        market_cap_usd == IF m = Null THEN Null ELSE Val(m).market_cap_usd
        country_master == IF country_bbg = NoneStr THEN NoneStr
                          ELSE CountryFromBbgCode(country_bbg)
    IN  [ fund_name       |-> h.fund_name,
          is_alquity      |-> h.is_alquity,
          ticker          |-> h.ticker,
          weight          |-> h.weight,
          country_derived |-> h.country_derived,
          short_name      |-> short_name,
          gics_industry   |-> gics_industry,
          gics_sector     |-> gics_sector,
          country_bbg     |-> country_bbg,
          market_cap_usd  |-> market_cap_usd,
          country         |-> ResolveCountry(country_master, h.country_derived) ]

\* df.merge(master_dedup[...], on="ticker", how="left")
RECURSIVE MergeMaster(_, _)
MergeMaster(frame, master) ==
    IF frame = <<>> THEN <<>>
    ELSE LET h == Head(frame)
             m == SelectSeq(master, LAMBDA x : x.ticker = h.ticker)
             rows == IF m = <<>> THEN << EnrichedRow(h, Null) >>
                     ELSE [ j \in DOMAIN m |-> EnrichedRow(h, Some(m[j])) ]
         IN  rows \o MergeMaster(Tail(frame), master)

\* enrich_holdings.  same_object: the frame returned is holdings_df itself;
\* joined: the returned frame has the master and country columns.
EnrichHoldings(holdings, master) ==
    IF holdings = <<>>
    THEN [ rows |-> <<>>, joined |-> FALSE, same_object |-> TRUE ]
    ELSE [ rows |-> MergeMaster(PositiveWeight(holdings), DropDuplicatesTicker(master)),
           joined |-> TRUE, same_object |-> FALSE ]

\* All sequences over S of length at most n.
SeqsUpTo(S, n) == UNION { [1..m -> S] : m \in 0..n }

\* The holdings and master data loaded for one snapshot and peer set.
InitEnrich ==
    /\ \E spec \in SeqsUpTo(Tickers \X RawWeights, MaxHoldings) :
         holdings_df = [ j \in DOMAIN spec |-> HoldingRow(j, spec[j][1], spec[j][2]) ]
    /\ master_df \in SeqsUpTo(MasterRows, MaxMaster)
    /\ enriched = [ rows |-> <<>>, joined |-> FALSE, same_object |-> FALSE ]
    /\ pc = "raw"
    /\ DiffIdle /\ PeerIdle /\ LoadIdle /\ IngestIdle /\ ScrapeIdle

\* df = enrich_holdings(holdings, master)
RunEnrichHoldings ==
    /\ pc = "raw"
    /\ enriched' = EnrichHoldings(holdings_df, master_df)
    /\ pc' = "enriched"
    /\ UNCHANGED <<holdings_df, master_df, diffVars, peerVars, loadVars, ingestVars,
                   scrapeVars>>

NextEnrich == RunEnrichHoldings

SpecEnrich == InitEnrich /\ [][NextEnrich]_vars

(***************************************************************************)
(* Properties of the record enrichment.                                    *)
(***************************************************************************)
\* The raw-holding columns of an enriched row.
HoldingPart(r) ==
    [ fund_name       |-> r.fund_name,
      is_alquity      |-> r.is_alquity,
      ticker          |-> r.ticker,
      weight          |-> r.weight,
      country_derived |-> r.country_derived ]

\* C10: the enriched rows are, in input order, exactly the input holding
\* rows with weight > 0, one output row each (so none has weight <= 0 and
\* duplicate master records multiply nothing); a row whose ticker has no
\* master record has null short_name, gics_industry, gics_sector and
\* market_cap_usd.
T_C10_RowPreservation ==
    pc = "enriched" =>
      LET kept == SelectSeq(holdings_df, LAMBDA h : h.weight > 0)
          out  == enriched.rows
      IN  /\ [ j \in DOMAIN out |-> HoldingPart(out[j]) ] = kept
          /\ \A j \in DOMAIN out : out[j].weight > 0
          /\ \A j \in DOMAIN out :
               (\A x \in DOMAIN master_df : master_df[x].ticker # out[j].ticker) =>
                  /\ out[j].short_name = NoneStr
                  /\ out[j].gics_industry = NoneStr
                  /\ out[j].gics_sector = NoneStr
                  /\ out[j].market_cap_usd = Null

\* Witness of C10: a zero-weight row is dropped, a kept row's ticker has two
\* master records, another kept row's ticker has none, and two rows come out.
W_C10_RowPreservation ==
    /\ pc = "enriched"
    /\ \E j \in DOMAIN holdings_df : holdings_df[j].weight <= 0
    /\ \E j \in DOMAIN holdings_df :
         /\ holdings_df[j].weight > 0
         /\ Cardinality({ x \in DOMAIN master_df :
                            master_df[x].ticker = holdings_df[j].ticker }) = 2
    /\ \E j \in DOMAIN holdings_df :
         /\ holdings_df[j].weight > 0
         /\ \A x \in DOMAIN master_df : master_df[x].ticker # holdings_df[j].ticker
    /\ Len(enriched.rows) = 2

\* The master records of a ticker, in the order supplied.
MasterOf(ticker) == SelectSeq(master_df, LAMBDA m : m.ticker = ticker)

\* C11: an enriched row whose ticker has master records carries the
\* reference fields of the first of them in the order supplied, whatever
\* the later records of the ticker hold.
T_C11_MasterKeepFirst ==
    pc = "enriched" =>
      \A j \in DOMAIN enriched.rows :
        LET r == enriched.rows[j]
            recs == MasterOf(r.ticker)
        IN  recs # <<>> =>
              /\ r.short_name = recs[1].short_name
              /\ r.gics_industry = recs[1].gics_industry
              /\ r.gics_sector = recs[1].gics_sector
              /\ r.country_bbg = recs[1].country_bbg
              /\ r.market_cap_usd = recs[1].market_cap_usd

\* Witness of C11: an enriched row whose ticker has two master records
\* that differ in every reference field.
W_C11_MasterKeepFirst ==
    /\ pc = "enriched"
    /\ \E j \in DOMAIN enriched.rows :
         LET recs == MasterOf(enriched.rows[j].ticker)
         IN  /\ Len(recs) = 2
             /\ recs[1].short_name # recs[2].short_name
             /\ recs[1].gics_sector # recs[2].gics_sector
             /\ recs[1].market_cap_usd # recs[2].market_cap_usd

\* The canonical country name of an enriched row's master country code.
CountryMaster(r) ==
    IF r.country_bbg = NoneStr THEN NoneStr ELSE CountryFromBbgCode(r.country_bbg)

\* C12: the country of every enriched row is the canonical name of its
\* master country code when there is one, otherwise the row's
\* country_derived; it is null only when both are absent.
T_C12_CountryPrecedence ==
    pc = "enriched" =>
      \A j \in DOMAIN enriched.rows :
        LET r == enriched.rows[j]
        IN  /\ CountryMaster(r) # NoneStr => r.country = CountryMaster(r)
            /\ CountryMaster(r) = NoneStr => r.country = r.country_derived
            /\ r.country = NoneStr <=>
                  CountryMaster(r) = NoneStr /\ r.country_derived = NoneStr

\* Witness of C12: one row takes the master's country over a different
\* derived one, another row has neither and a null country.
W_C12_CountryPrecedence ==
    /\ pc = "enriched"
    /\ \E j \in DOMAIN enriched.rows :
         LET r == enriched.rows[j]
         IN  /\ CountryMaster(r) # NoneStr
             /\ r.country_derived # NoneStr
             /\ r.country_derived # CountryMaster(r)
             /\ r.country = CountryMaster(r)
    /\ \E j \in DOMAIN enriched.rows : enriched.rows[j].country = NoneStr

(***************************************************************************)
(* Part III.  Peer comparison engine.                                      *)
(*                                                                         *)
(* A fraction is a pair <<n, d>> in lowest terms with d > 0; the engine's  *)
(* float results are modelled by the exact values.                         *)
(***************************************************************************)
Abs(x) == IF x < 0 THEN -x ELSE x

RECURSIVE GCD(_, _)
GCD(a, b) == IF b = 0 THEN a ELSE GCD(b, a % b)

Frac(n, d) == LET g == GCD(Abs(n), d) IN <<n \div g, d \div g>>
FInt(n) == <<n, 1>>
FAdd(a, b) == Frac(a[1] * b[2] + b[1] * a[2], a[2] * b[2])
FSub(a, b) == Frac(a[1] * b[2] - b[1] * a[2], a[2] * b[2])
FMul(a, b) == Frac(a[1] * b[1], a[2] * b[2])
\* a / b for b > 0
FDiv(a, b) == Frac(a[1] * b[2], a[2] * b[1])
FAbs(a) == <<Abs(a[1]), a[2]>>
FLess(a, b) == a[1] * b[2] < b[1] * a[2]
FZero == <<0, 1>>

\* round(a, k) with scale = 10^k: nearest multiple of 1/scale, ties to even.
FRound(a, scale) ==
    LET x == a[1] * scale
        q == x \div a[2]
        r == x % a[2]
        n == IF 2 * r < a[2] THEN q
             ELSE IF 2 * r > a[2] THEN q + 1
             ELSE IF q % 2 = 0 THEN q ELSE q + 1
    IN  Frac(n, scale)

RECURSIVE FSum(_)
FSum(s) == IF s = <<>> THEN FZero ELSE FAdd(Head(s), FSum(Tail(s)))

\* Series.sum() of the weight column.
RECURSIVE SumWeight(_)
SumWeight(frame) ==
    IF frame = <<>> THEN 0 ELSE Head(frame).weight + SumWeight(Tail(frame))

\* sort_values: the rows of s ordered by before, where before[i, j] says
\* that row i sorts ahead of row j; rows that before does not separate stay
\* in their order (numpy sorts short arrays by insertion).
StableSort(s, before) ==
    LET pos(j) == 1 + Cardinality({ i \in DOMAIN s :
                        before[i, j] \/ (~before[j, i] /\ i < j) })
    IN  [ p \in DOMAIN s |-> s[CHOOSE j \in DOMAIN s : pos(j) = p] ]

\* Mutant of Descending: the rows are put in ascending order.
Ascending(s, col) == [ i, j \in DOMAIN s |-> s[i][col] < s[j][col] ]

\* ascending=False on an integer column col
Descending(s, col) == [ i, j \in DOMAIN s |-> s[i][col] > s[j][col] ]

\* The group keys of a groupby, ascending.
RECURSIVE SortedNames(_)
SortedNames(S) ==
    IF S = {} THEN <<>>
    ELSE LET m == CHOOSE x \in S : \A y \in S : Rank(x) <= Rank(y)
         IN  <<m>> \o SortedNames(S \ {m})

TickersOf(frame) == { frame[j].ticker : j \in DOMAIN frame }
FundsOf(frame) == { frame[j].fund_name : j \in DOMAIN frame }
OfTicker(frame, t) == SelectSeq(frame, LAMBDA r : r.ticker = t)
OfFund(frame, f) == SelectSeq(frame, LAMBDA r : r.fund_name = f)

\* groupby(...).agg("first"): the first non-null value of a text column.
FirstText(values) ==
    LET present == SelectSeq(values, LAMBDA v : v # NoneStr)
    IN  IF present = <<>> THEN NoneStr ELSE Head(present)

ShortNames(frame) == [ j \in DOMAIN frame |-> frame[j].short_name ]
Countries(frame) == [ j \in DOMAIN frame |-> frame[j].country ]
Sectors(frame) == [ j \in DOMAIN frame |-> frame[j].gics_sector ]

\* _split_alquity
SplitAlquity(frame) == SelectSeq(frame, LAMBDA r : r.is_alquity = 1)
SplitPeers(frame) == SelectSeq(frame, LAMBDA r : r.is_alquity = 0)

\* _peer_fund_count
PeerFundCount(peers) == Cardinality(FundsOf(peers))

\* groupby("ticker")["fund_name"].nunique() for one ticker
HolderCount(frame, t) == Cardinality(FundsOf(OfTicker(frame, t)))

(***************************************************************************)
(* 1. holdings_overlap                                                     *)
(***************************************************************************)
\* Mutant of JaccardIndex: the shared tickers are divided by themselves.
JaccardOverShared(shared, union) ==
    IF shared # {} THEN Frac(Cardinality(shared), Cardinality(shared)) ELSE FZero

\* len(shared) / len(union) if union else 0
JaccardIndex(shared, union) ==
    IF union # {} THEN Frac(Cardinality(shared), Cardinality(union)) ELSE FZero

HoldingsOverlap(frame) ==
    LET alq   == SplitAlquity(frame)
        peers == SplitPeers(frame)
        alq_tickers == TickersOf(alq)
        funds == SortedNames(FundsOf(peers))
        Row(fund) ==
            LET group  == OfFund(peers, fund)
                shared == alq_tickers \cap TickersOf(group)
                union  == alq_tickers \cup TickersOf(group)
            IN  [ fund_name     |-> fund,
                  overlap_count |-> Cardinality(shared),
                  alquity_total |-> Cardinality(alq_tickers),
                  peer_total    |-> Cardinality(TickersOf(group)),
                  overlap_weight_alquity |->
                      SumWeight(SelectSeq(alq, LAMBDA r : r.ticker \in shared)),
                  overlap_weight_peer |->
                      SumWeight(SelectSeq(group, LAMBDA r : r.ticker \in shared)),
                  jaccard_index |-> JaccardIndex(shared, union) ]
        rows == [ j \in DOMAIN funds |-> Row(funds[j]) ]
    IN  IF alq = <<>>
        THEN [ raised |-> FALSE, rows |-> <<>> ]
        ELSE [ raised |-> FALSE,
               rows |-> StableSort(rows, Descending(rows, "overlap_count")) ]

(***************************************************************************)
(* 2. conviction_positions.  order is the order of list(all_tickers).      *)
(***************************************************************************)
\* Mutant of PeerAvgWeight: the total is divided by the number of holders.
PeerAvgByHolders(p, num_peers) ==
    IF p = <<>> THEN FZero ELSE Frac(SumWeight(p), Cardinality(FundsOf(p)))

\* peer_total_weight / num_peers, filled with 0 for a ticker no peer holds;
\* p is the peer rows of the ticker.
PeerAvgWeight(p, num_peers) ==
    IF p = <<>> THEN FZero ELSE Frac(SumWeight(p), num_peers)

ConvictionPositions(frame, order) ==
    LET alq   == SplitAlquity(frame)
        peers == SplitPeers(frame)
        num_peers == PeerFundCount(peers)
        FillText(own, other) == IF own # NoneStr THEN own ELSE other
        \* peers.drop_duplicates("ticker"): the first peer row of the ticker
        PeerText(t, col) ==
            IF OfTicker(peers, t) = <<>> THEN NoneStr ELSE Head(OfTicker(peers, t))[col]
        Row(t) ==
            LET a == OfTicker(alq, t)
                p == OfTicker(peers, t)
                alquity_weight  == SumWeight(a)
                peer_avg_weight == PeerAvgWeight(p, num_peers)
            IN  [ ticker            |-> t,
                  alquity_weight    |-> alquity_weight,
                  short_name        |-> FillText(FirstText(ShortNames(a)), PeerText(t, "short_name")),
                  country           |-> FillText(FirstText(Countries(a)), PeerText(t, "country")),
                  gics_sector       |-> FillText(FirstText(Sectors(a)), PeerText(t, "gics_sector")),
                  peer_avg_weight   |-> peer_avg_weight,
                  peer_holder_count |-> HolderCount(peers, t),
                  active_weight     |-> FSub(FInt(alquity_weight), peer_avg_weight) ]
        rows == [ j \in DOMAIN order |-> Row(order[j]) ]
    IN  IF alq = <<>> \/ num_peers = 0
        THEN [ raised |-> FALSE, rows |-> <<>> ]
        ELSE [ raised |-> FALSE,
               rows |-> StableSort(rows, [ i, j \in DOMAIN rows |->
                          FLess(FAbs(rows[j].active_weight), FAbs(rows[i].active_weight)) ]) ]

(***************************************************************************)
(* 3. unique_positions                                                     *)
(***************************************************************************)
\* Mutant of IsRare: a ticker held by two peers is not rare.
IsRareBelowTwo(peer_count) == peer_count < 2

\* peer_counts <= 2
IsRare(peer_count) == peer_count <= 2

\* Mutant of MeetsThreshold: more than half of the peers must hold it.
AboveHalf(peer_count, num_peers) == peer_count >= 1 /\ 2 * peer_count > num_peers

\* peer_counts >= threshold, where threshold = max(1, num_peers * 0.5)
MeetsThreshold(peer_count, num_peers) ==
    peer_count >= 1 /\ 2 * peer_count >= num_peers

UniquePositions(frame) ==
    LET alq   == SplitAlquity(frame)
        peers == SplitPeers(frame)
        num_peers == PeerFundCount(peers)
        alq_tickers == TickersOf(alq)
        alq_only_tickers == alq_tickers \ TickersOf(peers)
        rare_tickers ==
            { t \in TickersOf(peers) : IsRare(HolderCount(peers, t)) } \cap alq_tickers
        ByWeightDesc(s) == StableSort(s, Descending(s, "weight"))
        rare_rows == SelectSeq(alq, LAMBDA r : r.ticker \in rare_tickers \cup alq_only_tickers)
        consensus_tickers ==
            { t \in TickersOf(peers) :
                MeetsThreshold(HolderCount(peers, t), num_peers) } \ alq_tickers
        names == SortedNames(consensus_tickers)
        Agg(t) ==
            LET g == OfTicker(peers, t)
            IN  [ ticker       |-> t,
                  holder_count |-> HolderCount(peers, t),
                  avg_weight   |-> Frac(SumWeight(g), Len(g)),
                  short_name   |-> FirstText(ShortNames(g)),
                  country      |-> FirstText(Countries(g)),
                  gics_sector  |-> FirstText(Sectors(g)) ]
        agg == [ j \in DOMAIN names |-> Agg(names[j]) ]
    IN  [ raised |-> FALSE,
          alquity_unique |->
              ByWeightDesc(SelectSeq(alq, LAMBDA r : r.ticker \in alq_only_tickers)),
          alquity_rare |->
              ByWeightDesc([ j \in DOMAIN rare_rows |->
                  ("peer_count" :> HolderCount(peers, rare_rows[j].ticker)) @@ rare_rows[j] ]),
          peer_consensus_missing |->
              StableSort(agg, Descending(agg, "holder_count")) ]

(***************************************************************************)
(* 4. consensus_holdings                                                   *)
(***************************************************************************)
RECURSIVE MaxWeight(_)
MaxWeight(frame) ==
    IF Len(frame) = 1 THEN Head(frame).weight
    ELSE LET m == MaxWeight(Tail(frame))
         IN  IF Head(frame).weight >= m THEN Head(frame).weight ELSE m

\* Mutant of FirstMaxFund: the last row that holds the maximum.
LastMaxFund(g, max_weight) ==
    LET at_max == SelectSeq(g, LAMBDA r : r.weight = max_weight)
    IN  at_max[Len(at_max)].fund_name

\* df.loc[idxmax, "fund_name"]: idxmax is the first row that holds the
\* maximum
FirstMaxFund(g, max_weight) ==
    Head(SelectSeq(g, LAMBDA r : r.weight = max_weight)).fund_name

ConsensusHoldings(frame) ==
    LET total_funds == Cardinality(FundsOf(frame))
        alq == SplitAlquity(frame)
        names == SortedNames(TickersOf(frame))
        Row(t) ==
            LET g == OfTicker(frame, t)
                max_weight == MaxWeight(g)
            IN  [ ticker          |-> t,
                  num_holders     |-> HolderCount(frame, t),
                  avg_weight      |-> Frac(SumWeight(g), Len(g)),
                  max_weight      |-> max_weight,
                  short_name      |-> FirstText(ShortNames(g)),
                  country         |-> FirstText(Countries(g)),
                  gics_sector     |-> FirstText(Sectors(g)),
                  max_weight_fund |-> FirstMaxFund(g, max_weight),
                  pct_of_funds    |->
                      FRound(Frac(HolderCount(frame, t) * 100, total_funds), 10),
                  held_by_alquity |-> t \in TickersOf(alq),
                  alquity_weight  |-> SumWeight(OfTicker(alq, t)) ]
        agg == [ j \in DOMAIN names |-> Row(names[j]) ]
    IN  [ raised |-> FALSE,
          rows |-> StableSort(agg, [ i, j \in DOMAIN agg |->
                     \/ agg[i].num_holders > agg[j].num_holders
                     \/ /\ agg[i].num_holders = agg[j].num_holders
                        /\ FLess(agg[j].avg_weight, agg[i].avg_weight) ]) ]

(***************************************************************************)
(* 5. country_allocation and 6. sector_allocation                          *)
(***************************************************************************)
\* groupby(col)["weight"].sum() drops the rows whose key is null.
GroupKeys(frame, col) == { frame[j][col] : j \in DOMAIN frame } \ {NoneStr}
GroupWeight(frame, col, key) == SumWeight(SelectSeq(frame, LAMBDA r : r[col] = key))

\* The comparison table of alquity and peer-average weight per key of col.
Comparison(alq, peers, col) ==
    LET num_peers == PeerFundCount(peers)
        peer_keys == IF num_peers > 0 THEN GroupKeys(peers, col) ELSE {}
        names == SortedNames(GroupKeys(alq, col) \cup peer_keys)
        Row(key) ==
            LET alquity_weight  == IF key \in GroupKeys(alq, col)
                                   THEN GroupWeight(alq, col, key) ELSE 0
                peer_avg_weight == IF key \in peer_keys
                                   THEN Frac(GroupWeight(peers, col, key), num_peers)
                                   ELSE FZero
            IN  [ key             |-> key,
                  alquity_weight  |-> alquity_weight,
                  peer_avg_weight |-> peer_avg_weight,
                  active_weight   |-> FSub(FInt(alquity_weight), peer_avg_weight) ]
        comparison == [ j \in DOMAIN names |-> Row(names[j]) ]
    IN  StableSort(comparison, Descending(comparison, "alquity_weight"))

CountryAllocation(frame) ==
    LET alq   == SplitAlquity(frame)
        peers == SplitPeers(frame)
        FundCountries(f) ==
            LET group == OfFund(peers, f)
                names == SortedNames(GroupKeys(group, "country"))
                fc    == [ j \in DOMAIN names |->
                             [ country |-> names[j],
                               weight  |-> GroupWeight(group, "country", names[j]) ] ]
            IN  StableSort(fc, Descending(fc, "weight"))
    IN  [ raised     |-> FALSE,
          comparison |-> Comparison(alq, peers, "country"),
          per_fund   |-> [ f \in FundsOf(peers) |-> FundCountries(f) ] ]

HasSector(r) == r.gics_sector # NoneStr /\ r.gics_sector # ""

SectorAllocation(frame) ==
    LET has_sector == SelectSeq(frame, HasSector)
        alq   == SplitAlquity(has_sector)
        peers == SplitPeers(has_sector)
        Coverage(f) ==
            LET group    == OfFund(frame, f)
                total_w  == SumWeight(group)
                sector_w == SumWeight(SelectSeq(group, HasSector))
            IN  IF total_w > 0 THEN FRound(Frac(sector_w * 100, total_w), 10)
                ELSE FZero
    IN  [ raised     |-> FALSE,
          comparison |-> Comparison(alq, peers, "gics_sector"),
          coverage   |-> [ f \in FundsOf(frame) |-> Coverage(f) ] ]

(***************************************************************************)
(* 7. concentration_metrics                                                *)
(***************************************************************************)
RECURSIVE TopSum(_, _)
TopSum(frame, k) ==
    IF k = 0 \/ frame = <<>> THEN 0
    ELSE Head(frame).weight + TopSum(Tail(frame), k - 1)

ConcentrationMetrics(frame) ==
    LET funds == SortedNames(FundsOf(frame))
        Row(fund) ==
            LET group   == OfFund(frame, fund)
                weights == StableSort(group, Descending(group, "weight"))
                n       == Len(weights)
                total   == SumWeight(weights)
                hhi     == IF total > 0
                           THEN FSum([ j \in DOMAIN weights |->
                                   FMul(Frac(weights[j].weight * 100, total),
                                        Frac(weights[j].weight * 100, total)) ])
                           ELSE FZero
                top     == Head(weights)
            IN  [ fund_name     |-> fund,
                  is_alquity    |-> Head(group).is_alquity,
                  num_positions |-> n,
                  top_5_weight  |-> TopSum(weights, 5),
                  top_10_weight |-> TopSum(weights, 10),
                  top_20_weight |-> TopSum(weights, 20),
                  hhi           |-> FRound(hhi, 10),
                  effective_positions |->
                      IF FLess(FZero, hhi) THEN FRound(FDiv(FInt(10000), hhi), 10)
                      ELSE FInt(n),
                  max_position_weight |-> top.weight,
                  max_position_name |->
                      IF top.short_name # NoneStr THEN top.short_name ELSE top.ticker ]
        rows == [ j \in DOMAIN funds |-> Row(funds[j]) ]
    IN  [ raised |-> FALSE,
          rows |-> StableSort(rows, Descending(rows, "is_alquity")) ]

(***************************************************************************)
(* 8. active_share.  order is the order of the set all_tickers.            *)
(***************************************************************************)
\* Weights per ticker normalized to sum to 100 (left as they are when the
\* total is 0); w maps the tickers of T to fractions.
Normalized(w, T) ==
    LET names == SortedNames(T)
        total == FSum([ j \in DOMAIN names |-> w[names[j]] ])
    IN  IF FLess(FZero, total)
        THEN [ t \in T |-> FMul(FDiv(w[t], total), FInt(100)) ]
        ELSE w

\* 0.5 * sum over the union of tickers of |a - b|, absent tickers counting 0.
HalfAbsDiff(a, b) ==
    LET T == DOMAIN a \cup DOMAIN b
        names == SortedNames(T)
        At(f, t) == IF t \in DOMAIN f THEN f[t] ELSE FZero
    IN  FDiv(FSum([ j \in DOMAIN names |->
                      FAbs(FSub(At(a, names[j]), At(b, names[j]))) ]), FInt(2))

ActiveShare(frame, order) ==
    LET alq   == SplitAlquity(frame)
        peers == SplitPeers(frame)
        num_peers == PeerFundCount(peers)
        alq_norm == Normalized([ t \in TickersOf(alq) |-> FInt(SumWeight(OfTicker(alq, t))) ],
                               TickersOf(alq))
        consensus_norm ==
            IF num_peers > 0
            THEN Normalized([ t \in TickersOf(peers) |->
                                Frac(SumWeight(OfTicker(peers, t)), num_peers) ],
                            TickersOf(peers))
            ELSE [ t \in {} |-> FZero ]
        At(f, t) == IF t \in DOMAIN f THEN f[t] ELSE FZero
        Contribution(t) ==
            [ ticker           |-> t,
              alquity_weight   |-> At(alq_norm, t),
              consensus_weight |-> At(consensus_norm, t),
              contribution     |-> FAbs(FSub(At(alq_norm, t), At(consensus_norm, t))),
              \* df.drop_duplicates("ticker"): the first row of the ticker
              short_name       |-> Head(OfTicker(frame, t)).short_name ]
        diffs   == [ j \in DOMAIN order |-> Contribution(order[j]) ]
        contrib == StableSort(diffs, [ i, j \in DOMAIN diffs |->
                                FLess(diffs[j].contribution, diffs[i].contribution) ])
        funds == SortedNames(FundsOf(peers))
        PeerRow(fund) ==
            LET group == OfFund(peers, fund)
                p_norm == Normalized([ t \in TickersOf(group) |->
                                         FInt(SumWeight(OfTicker(group, t))) ],
                                     TickersOf(group))
            IN  [ fund_name    |-> fund,
                  active_share |-> FRound(HalfAbsDiff(alq_norm, p_norm), 10) ]
        peer_rows == [ j \in DOMAIN funds |-> PeerRow(funds[j]) ]
    IN  IF alq = <<>>
        THEN [ raised |-> FALSE, vs_consensus |-> FZero,
               vs_each_peer |-> <<>>, top_contributors |-> <<>> ]
        ELSE IF peer_rows = <<>>
        \* pd.DataFrame([]).sort_values("active_share"): KeyError
        THEN [ raised |-> TRUE ]
        ELSE [ raised |-> FALSE,
               vs_consensus |-> FRound(HalfAbsDiff(alq_norm, consensus_norm), 10),
               vs_each_peer |-> StableSort(peer_rows, [ i, j \in DOMAIN peer_rows |->
                                  FLess(peer_rows[i].active_share, peer_rows[j].active_share) ]),
               top_contributors |-> SubSeq(contrib, 1, IF Len(contrib) < 20 THEN Len(contrib) ELSE 20) ]

(***************************************************************************)
(* 9. market_cap_analysis.  market_cap_usd is in USD millions; the model    *)
(* counts it in hundredths of a million, so that 2499.99 is 249999.        *)
(***************************************************************************)
\* _cap_bucket with the thresholds exclusive
CapBucketAbove(mc) ==
    IF mc = Null THEN "Unknown"
    ELSE IF Val(mc) > 10000 * 100 THEN "Large Cap"
    ELSE IF Val(mc) > 2500 * 100 THEN "Mid Cap"
    ELSE "Small Cap"

\* _cap_bucket
CapBucket(mc) ==
    IF mc = Null THEN "Unknown"
    ELSE IF Val(mc) >= 10000 * 100 THEN "Large Cap"
    ELSE IF Val(mc) >= 2500 * 100 THEN "Mid Cap"
    ELSE "Small Cap"

Buckets == <<"Large Cap", "Mid Cap", "Small Cap", "Unknown">>

\* The mean of a bucket's percentages over the funds that hold the bucket.
BucketMeanOverHolders(values) ==
    LET held == SelectSeq(values, LAMBDA v : v # FZero)
    IN  IF held = <<>> THEN FZero ELSE FDiv(FSum(held), FInt(Len(held)))

\* peer_rows[b].mean()
BucketMean(values) == FDiv(FSum(values), FInt(Len(values)))

MarketCapAnalysis(frame) ==
    LET funds == SortedNames(FundsOf(frame))
        InBucket(group, b) == SelectSeq(group, LAMBDA r : CapBucket(r.market_cap_usd) = b)
        Row(fund) ==
            LET group == OfFund(frame, fund)
                total == SumWeight(group)
            IN  [ fund_name  |-> fund,
                  is_alquity |-> Head(group).is_alquity,
                  share      |-> [ j \in DOMAIN Buckets |->
                                     IF total > 0
                                     THEN FRound(Frac(SumWeight(InBucket(group, Buckets[j])) * 100,
                                                      total), 100)
                                     ELSE FZero ] ]
        rows == [ j \in DOMAIN funds |-> Row(funds[j]) ]
        comparison == StableSort(rows, [ i, j \in DOMAIN rows |->
                         \/ rows[i].is_alquity > rows[j].is_alquity
                         \/ /\ rows[i].is_alquity = rows[j].is_alquity
                            /\ Rank(rows[i].fund_name) < Rank(rows[j].fund_name) ])
        alq_row   == SelectSeq(comparison, LAMBDA r : r.is_alquity = 1)
        peer_rows == SelectSeq(comparison, LAMBDA r : r.is_alquity = 0)
        Avg(j) ==
            LET alq_val  == IF alq_row # <<>> THEN alq_row[1].share[j] ELSE FZero
                peer_val == IF peer_rows # <<>>
                            THEN FRound(BucketMean([ x \in DOMAIN peer_rows |->
                                                       peer_rows[x].share[j] ]), 100)
                            ELSE FZero
            IN  [ cap_bucket      |-> Buckets[j],
                  alquity_weight  |-> alq_val,
                  peer_avg_weight |-> peer_val,
                  active_weight   |-> FRound(FSub(alq_val, peer_val), 100) ]
        alq == SplitAlquity(frame)
        detail == [ j \in DOMAIN alq |->
                      [ ticker         |-> alq[j].ticker,
                        short_name     |-> alq[j].short_name,
                        weight         |-> alq[j].weight,
                        market_cap_usd |-> alq[j].market_cap_usd,
                        cap_bucket     |-> CapBucket(alq[j].market_cap_usd),
                        country        |-> alq[j].country,
                        gics_sector    |-> alq[j].gics_sector ] ]
    IN  IF rows = <<>>
        \* pd.DataFrame([]).sort_values(["is_alquity", "fund_name"]): KeyError
        THEN [ raised |-> TRUE ]
        ELSE [ raised |-> FALSE,
               comparison |-> comparison,
               peer_avg |-> [ j \in DOMAIN Buckets |-> Avg(j) ],
               alquity_detail |-> StableSort(detail, Descending(detail, "weight")) ]

(***************************************************************************)
(* The dashboard's calls of the engine on one loaded holding set.          *)
(***************************************************************************)
MaxRows == 4

FundNames == {"Alquity", "Peer1", "Peer2", "Peer3"}

\* The weights at which a fund can hold a ticker.
HeldWeights(fund, ticker) ==
    IF fund = "Alquity" THEN (IF ticker = "A" THEN {5, 10} ELSE {5})
    ELSE IF fund = "Peer1" THEN (IF ticker = "A" THEN {5, 10} ELSE {10})
    ELSE IF fund = "Peer2" THEN {5}
    ELSE (IF ticker = "A" THEN {5} ELSE {})

\* One enriched holding row.  Ticker A has full reference data; ticker B has
\* none, except in Peer2's rows.
PeerRow(fund, ticker, weight) ==
    LET full == ticker = "A"
        part == ticker = "B" /\ fund = "Peer2"
    IN  [ fund_name      |-> fund,
          is_alquity     |-> IF fund = "Alquity" THEN 1 ELSE 0,
          ticker         |-> ticker,
          weight         |-> weight,
          short_name     |-> IF full THEN "Name1" ELSE IF part THEN "Name2" ELSE NoneStr,
          gics_sector    |-> IF full THEN "Financials" ELSE IF part THEN "" ELSE NoneStr,
          country        |-> IF full THEN "China" ELSE IF part THEN "India" ELSE NoneStr,
          market_cap_usd |-> IF full THEN Some(2000000) ELSE IF part THEN Some(250000) ELSE Null ]

PeerRows ==
    UNION { { PeerRow(f, t, w) : w \in HeldWeights(f, t) } : f \in FundNames, t \in Tickers }

InitPeer ==
    /\ peer_df \in SeqsUpTo(PeerRows, MaxRows)
    /\ result = [ fn |-> "none" ]
    /\ pc = "ready"
    /\ DiffIdle /\ EnrichIdle /\ LoadIdle /\ IngestIdle /\ ScrapeIdle

\* One call fn(df) that returns (or raises) out.
Call(fn, out) ==
    /\ pc = "ready"
    /\ result' = [ fn |-> fn, out |-> out ]
    /\ pc' = "called"
    /\ UNCHANGED <<peer_df, diffVars, enrichVars, loadVars, ingestVars, scrapeVars>>

CallHoldingsOverlap == Call("holdings_overlap", HoldingsOverlap(peer_df))

CallConvictionPositions ==
    \E order \in SeqPerms(TickersOf(peer_df)) :
        Call("conviction_positions", ConvictionPositions(peer_df, order))

CallUniquePositions == Call("unique_positions", UniquePositions(peer_df))

CallConsensusHoldings == Call("consensus_holdings", ConsensusHoldings(peer_df))

CallCountryAllocation == Call("country_allocation", CountryAllocation(peer_df))

CallSectorAllocation == Call("sector_allocation", SectorAllocation(peer_df))

CallConcentrationMetrics == Call("concentration_metrics", ConcentrationMetrics(peer_df))

CallActiveShare ==
    \E order \in SeqPerms(TickersOf(peer_df)) :
        Call("active_share", ActiveShare(peer_df, order))

CallMarketCapAnalysis == Call("market_cap_analysis", MarketCapAnalysis(peer_df))

NextPeer ==
    \/ CallHoldingsOverlap
    \/ CallConvictionPositions
    \/ CallUniquePositions
    \/ CallConsensusHoldings
    \/ CallCountryAllocation
    \/ CallSectorAllocation
    \/ CallConcentrationMetrics
    \/ CallActiveShare
    \/ CallMarketCapAnalysis

SpecPeer == InitPeer /\ [][NextPeer]_vars

(***************************************************************************)
(* active_share on a reference fund and one peer that hold the same two    *)
(* tickers at nearly equal weights.                                        *)
(***************************************************************************)
CloseWeights == {48, 49, 50}

InitShare ==
    /\ \E a, b, c, d \in CloseWeights :
         peer_df = << PeerRow("Alquity", "A", a), PeerRow("Alquity", "B", b),
                      PeerRow("Peer1", "A", c), PeerRow("Peer1", "B", d) >>
    /\ result = [ fn |-> "none" ]
    /\ pc = "ready"
    /\ DiffIdle /\ EnrichIdle /\ LoadIdle /\ IngestIdle /\ ScrapeIdle

NextShare == CallActiveShare

SpecShare == InitShare /\ [][NextShare]_vars

(***************************************************************************)
(* market_cap_analysis on a reference fund whose holdings carry market     *)
(* caps on and around the bucket thresholds (hundredths of a million).     *)
(***************************************************************************)
MaxCaps == 3

MarketCaps ==
    {Null, Some(0), Some(249999), Some(250000), Some(999999), Some(1000000),
     Some(2000000)}

CapRow(ticker, mc) == [ PeerRow("Alquity", ticker, 5) EXCEPT !.market_cap_usd = mc ]

InitCap ==
    /\ \E spec \in SeqsUpTo(Tickers \X MarketCaps, MaxCaps) :
         peer_df = [ j \in DOMAIN spec |-> CapRow(spec[j][1], spec[j][2]) ]
    /\ result = [ fn |-> "none" ]
    /\ pc = "ready"
    /\ DiffIdle /\ EnrichIdle /\ LoadIdle /\ IngestIdle /\ ScrapeIdle

NextCap == CallMarketCapAnalysis

SpecCap == InitCap /\ [][NextCap]_vars

(***************************************************************************)
(* Part IV.  Loading of the temporal facts: get_comparison_data.           *)
(*                                                                         *)
(* A stored fund name is a sequence of characters; the characters outside  *)
(* ASCII are written by name.                                              *)
(***************************************************************************)
\* The characters of the stored names in binary (UTF-8) order.
CharOrder ==
    <<" ", "-", "?", "A", "B", "F", "NO-BREAK SPACE", "FIGURE DASH", "EN DASH",
      "EM DASH", "HORIZONTAL BAR", "REPLACEMENT CHARACTER">>

CharRank(c) == CHOOSE i \in DOMAIN CharOrder : CharOrder[i] = c

\* a < b for two names in binary order
RECURSIVE NameLess(_, _)
NameLess(a, b) ==
    IF b = <<>> THEN FALSE
    ELSE IF a = <<>> THEN TRUE
    ELSE IF CharRank(Head(a)) < CharRank(Head(b)) THEN TRUE
    ELSE IF CharRank(Head(a)) > CharRank(Head(b)) THEN FALSE
    ELSE NameLess(Tail(a), Tail(b))

\* name.replace(ch, to) for one character ch
ReplaceChar(name, chars, to) ==
    [ j \in DOMAIN name |-> IF name[j] \in chars THEN to ELSE name[j] ]

\* name.replace(" ? ", " - "): the matches from the left, not overlapping
RECURSIVE ReplaceSpacedQuestion(_)
ReplaceSpacedQuestion(name) ==
    IF Len(name) < 3 THEN name
    ELSE IF SubSeq(name, 1, 3) = <<" ", "?", " ">>
         THEN <<" ", "-", " ">> \o ReplaceSpacedQuestion(SubSeq(name, 4, Len(name)))
         ELSE <<Head(name)>> \o ReplaceSpacedQuestion(Tail(name))

\* _normalize_fund_name
NormalizeFundName(name) ==
    LET dashes == ReplaceChar(name, {"EN DASH", "EM DASH", "FIGURE DASH", "HORIZONTAL BAR"}, "-")
        spaces == ReplaceChar(dashes, {"NO-BREAK SPACE"}, " ")
        repl   == ReplaceChar(spaces, {"REPLACEMENT CHARACTER"}, "-")
    IN  ReplaceSpacedQuestion(repl)

\* Largest number of rows of holdings_sectors_log that the model enumerates.
MaxStored == 3

\* Fund names as stored: "F - A" with a hyphen, an en dash, a corrupted
\* dash and no-break spaces, and another fund "F - B".
StoredNames ==
    { <<"F", " ", "-", " ", "A">>,
      <<"F", " ", "EN DASH", " ", "A">>,
      <<"F", " ", "?", " ", "A">>,
      <<"F", "NO-BREAK SPACE", "-", "NO-BREAK SPACE", "A">>,
      <<"F", " ", "-", " ", "B">> }

StoredKeys ==
    { <<name, "Holdings", "X">> : name \in StoredNames }
      \cup { << <<"F", " ", "-", " ", "A">>, "Sectors", "X" >> }

\* percentage REAL NOT NULL
StoredPercentages == {Some(10000), Some(12345)}

StoredFact(d, k, p) ==
    [ log_date       |-> d,
      category       |-> k[2],
      fund_name      |-> k[1],
      company_sector |-> k[3],
      percentage     |-> p,
      date_of_data   |-> d,
      url            |-> "https://ft/F" ]

\* The facts of two log dates.
StoredFacts ==
    { StoredFact(d, k, p) : d \in {1, 2}, k \in StoredKeys, p \in StoredPercentages }

\* get_last_n_dates: the n latest distinct log dates, oldest first.
RECURSIVE LatestDates(_, _)
LatestDates(D, n) ==
    IF D = {} \/ n = 0 THEN <<>>
    ELSE LET m == CHOOSE x \in D : \A y \in D : y <= x
         IN  LatestDates(D \ {m}, n - 1) \o <<m>>

GetLastNDates(rows, n) == LatestDates({ r.log_date : r \in rows }, n)

\* get_distinct_funds
GetDistinctFunds(rows) ==
    { NormalizeFundName(r.fund_name) : r \in { x \in rows : x.category = "Holdings" } }

\* ORDER BY category, log_date, fund_name, company_sector on the stored names
StoredLess(a, b) ==
    IF a.category # b.category THEN Rank(a.category) < Rank(b.category)
    ELSE IF a.log_date # b.log_date THEN a.log_date < b.log_date
    ELSE IF a.fund_name # b.fund_name THEN NameLess(a.fund_name, b.fund_name)
    ELSE Rank(a.company_sector) < Rank(b.company_sector)

\* The orders in which the query can return the rows S: rows that ORDER BY
\* does not separate come in an order the engine chooses.
ReadOrders(S) ==
    { s \in SeqPerms(S) : \A i, j \in DOMAIN s : i < j => ~StoredLess(s[j], s[i]) }

\* df["fund_name"] = df["fund_name"].apply(_normalize_fund_name)
NormalizeFrame(frame) ==
    [ j \in DOMAIN frame |->
        [ frame[j] EXCEPT !.fund_name = NormalizeFundName(frame[j].fund_name) ] ]

DedupKey(r) == <<r.log_date, r.fund_name, r.category, r.company_sector>>

\* The rows of frame at the positions in keep, in order.
RECURSIVE AtPositions(_, _, _)
AtPositions(frame, keep, j) ==
    IF j > Len(frame) THEN <<>>
    ELSE (IF j \in keep THEN <<frame[j]>> ELSE <<>>) \o AtPositions(frame, keep, j + 1)

\* drop_duplicates(subset=..., keep="last")
KeepLastFacts(frame) ==
    AtPositions(frame,
                { j \in DOMAIN frame :
                    \A i \in DOMAIN frame : i > j => DedupKey(frame[i]) # DedupKey(frame[j]) },
                1)

\* drop_duplicates(subset=["log_date", "fund_name", "category",
\* "company_sector"], keep="first")
DropDuplicatesFacts(frame) ==
    AtPositions(frame,
                { j \in DOMAIN frame :
                    \A i \in DOMAIN frame : i < j => DedupKey(frame[i]) # DedupKey(frame[j]) },
                1)

InitLoad ==
    /\ table \in { T \in SUBSET StoredFacts : Cardinality(T) <= MaxStored }
    /\ fetched = <<>>
    /\ df = <<>> /\ dates = <<>> /\ details = <<>> /\ prev_details = <<>>
    /\ pc = "stored"
    /\ EnrichIdle /\ PeerIdle /\ IngestIdle /\ ScrapeIdle

\* get_comparison_data(db_path, num_snapshots)
GetComparisonData ==
    /\ pc = "stored"
    /\ \E num_snapshots \in 1..NumSnapshots :
         LET ds    == GetLastNDates(table, num_snapshots)
             funds == GetDistinctFunds(table)
         IN  /\ dates' = ds
             /\ IF ds = <<>> \/ funds = {}
                THEN fetched' = <<>> /\ df' = <<>> /\ details' = <<>>
                ELSE \E read \in ReadOrders({ r \in table :
                                                \E i \in DOMAIN ds : ds[i] = r.log_date }) :
                       LET dedup == DropDuplicatesFacts(NormalizeFrame(read))
                       IN  /\ fetched' = read
                           /\ df' = dedup
                           /\ \E pick \in SetOrders(dedup, ds, 1) :
                                 details' = ComputeDiffs(dedup, ds, pick)
    /\ pc' = "compared"
    /\ UNCHANGED <<table, prev_details, enrichVars, peerVars, ingestVars, scrapeVars>>

NextLoad == GetComparisonData

SpecLoad == InitLoad /\ [][NextLoad]_vars

(***************************************************************************)
(* Part V.  Bloomberg ingestion: ingest_bloomberg_excel.                   *)
(*                                                                         *)
(* bbg is the committed content of the four tables and the AUTOINCREMENT   *)
(* counter of bbg_snapshots.  A snapshot is identified by its file name,   *)
(* from which the snapshot date is taken.                                  *)
(***************************************************************************)
\* Largest snapshot_id the model hands out.
MaxSnapshotId == 3

FileNames == {"peers_2025-01-31.xlsx", "peers_2025-02-28.xlsx"}

\* What is found at file_path: no file, a file openpyxl cannot load, a
\* workbook without the master_data sheet, and two complete workbooks.
Workbook(exists, loadable, peers, holdings, master) ==
    [ exists |-> exists, loadable |-> loadable, peers |-> peers,
      holdings |-> holdings, master_data |-> master ]

Workbooks ==
    { Workbook(FALSE, FALSE, {}, {}, Null),
      Workbook(TRUE, FALSE, {}, {}, Null),
      Workbook(TRUE, TRUE, {"Alquity"}, { <<"Alquity", "A">> }, Null),
      Workbook(TRUE, TRUE, {"Alquity", "Peer1"},
               { <<"Alquity", "A">>, <<"Peer1", "A">> }, Some({"A"})),
      Workbook(TRUE, TRUE, {"Alquity"}, { <<"Alquity", "B">> }, Some({"B"})) }

EmptyBbg ==
    [ snapshots |-> {}, peer_groups |-> {}, holdings |-> {}, master_data |-> {},
      seq |-> 0 ]

\* The four DELETE statements of the replace branch.
DeleteSnapshot(db, sid) ==
    [ db EXCEPT !.holdings    = { r \in @ : r.snapshot_id # sid },
                !.peer_groups = { r \in @ : r.snapshot_id # sid },
                !.master_data = { r \in @ : r.snapshot_id # sid },
                !.snapshots   = { r \in @ : r.snapshot_id # sid } ]

\* The INSERT statements of one workbook under a new snapshot_id.
InsertSnapshot(db, file_name, wb) ==
    LET sid == db.seq + 1
    IN  [ snapshots   |-> db.snapshots \cup { [ snapshot_id |-> sid, file_name |-> file_name ] },
          peer_groups |-> db.peer_groups \cup
                            { [ snapshot_id |-> sid, fund_name |-> f ] : f \in wb.peers },
          holdings    |-> db.holdings \cup
                            { [ snapshot_id |-> sid, fund_name |-> h[1], ticker |-> h[2] ] :
                                h \in wb.holdings },
          master_data |-> db.master_data \cup
                            { [ snapshot_id |-> sid, ticker |-> t ] : t \in Val(wb.master_data) },
          seq         |-> sid ]

\* ingest_bloomberg_excel: the committed tables after the call and how the
\* call ended.  committed is the database at the last conn.commit(); a
\* rollback returns to it.
IngestBloombergExcel(db, file_name, wb, replace) ==
    LET existing  == { r \in db.snapshots : r.file_name = file_name }
        committed == IF existing # {} /\ replace
                     THEN DeleteSnapshot(db, (CHOOSE r \in existing : TRUE).snapshot_id)
                     ELSE db
    IN  IF ~wb.exists
        THEN [ db |-> db, outcome |-> "raised" ]          \* FileNotFoundError
        ELSE IF existing # {} /\ ~replace
        THEN [ db |-> db, outcome |-> "already exists" ]
        ELSE IF ~wb.loadable
        THEN [ db |-> committed, outcome |-> "raised" ]   \* load_workbook raises
        ELSE IF wb.master_data = Null
        THEN [ db |-> committed, outcome |-> "raised" ]   \* wb["master_data"]: KeyError
        ELSE [ db |-> InsertSnapshot(committed, file_name, wb), outcome |-> "ingested" ]

InitIngest ==
    /\ bbg = EmptyBbg
    /\ summary = [ file_name |-> "", replace |-> FALSE, outcome |-> "none" ]
    /\ pc = "open"
    /\ DiffIdle /\ EnrichIdle /\ PeerIdle /\ LoadIdle /\ ScrapeIdle

\* One call ingest_bloomberg_excel(file_path, db_path, replace).
Ingest ==
    /\ pc = "open"
    /\ \E file_name \in FileNames, wb \in Workbooks, replace \in BOOLEAN :
         LET done == IngestBloombergExcel(bbg, file_name, wb, replace)
         IN  /\ done.db.seq <= MaxSnapshotId
             /\ bbg' = done.db
             /\ summary' = [ file_name |-> file_name, replace |-> replace,
                             outcome |-> done.outcome ]
    /\ UNCHANGED <<pc, diffVars, enrichVars, peerVars, loadVars, scrapeVars>>

NextIngest == Ingest

SpecIngest == InitIngest /\ [][NextIngest]_vars

(***************************************************************************)
(* Part VI.  Scraper retry loop: scrape_all_funds.                         *)
(*                                                                         *)
(* url_i is the 1-based position i of the outer loop, attempt the counter  *)
(* of the inner loop; scrape_log holds one record per call of              *)
(* scrape_single_fund (the logger writes one line for each).               *)
(***************************************************************************)
\* Largest number of funds in the configuration.
MaxUrls == 3

\* Largest max_retries in the configuration.
MaxRetries == 2

Urls == {"https://ft/F1", "https://ft/F2"}

ScrapedEntry(url, company_sector) == [ url |-> url, company_sector |-> company_sector ]

\* What scrape_single_fund can return for a page: no entry (no fund name
\* found) or the entries of the page.
PageEntries(url) == { <<>>, <<ScrapedEntry(url, "X")>> }

\* Mutant of NextAttempt: no break after a success.
NextAttemptNoBreak(i, n, max_retries, ok) ==
    IF n = max_retries THEN <<i + 1, 1>> ELSE <<i, n + 1>>

\* The loop counters after attempt n on URL i: break on success, next URL
\* after the last attempt, else the next attempt.
NextAttempt(i, n, max_retries, ok) ==
    IF ok \/ n = max_retries THEN <<i + 1, 1>> ELSE <<i, n + 1>>

InitScrape ==
    /\ config \in { [ fund_urls |-> u, max_retries |-> m ] :
                       u \in SeqsUpTo(Urls, MaxUrls), m \in 1..MaxRetries }
    /\ url_i = 1
    /\ attempt = 1
    /\ entries = <<>>
    /\ scrape_log = <<>>
    /\ pc = "scraping"
    /\ DiffIdle /\ EnrichIdle /\ PeerIdle /\ LoadIdle /\ IngestIdle

\* One pass of the try block that returns: entries.extend(fund_entries); break
ScrapeSucceeds ==
    /\ pc = "scraping"
    /\ url_i <= Len(config.fund_urls)
    /\ attempt <= config.max_retries
    /\ \E fund_entries \in PageEntries(config.fund_urls[url_i]) :
         /\ entries' = entries \o fund_entries
         /\ scrape_log' = Append(scrape_log,
                [ i |-> url_i, attempt |-> attempt, ok |-> TRUE,
                  fund_entries |-> fund_entries ])
    /\ url_i' = NextAttempt(url_i, attempt, config.max_retries, TRUE)[1]
    /\ attempt' = NextAttempt(url_i, attempt, config.max_retries, TRUE)[2]
    /\ UNCHANGED <<config, pc, diffVars, enrichVars, peerVars, loadVars, ingestVars>>

\* One pass of the try block that raises: the except branch
ScrapeFails ==
    /\ pc = "scraping"
    /\ url_i <= Len(config.fund_urls)
    /\ attempt <= config.max_retries
    /\ scrape_log' = Append(scrape_log,
           [ i |-> url_i, attempt |-> attempt, ok |-> FALSE, fund_entries |-> <<>> ])
    /\ url_i' = NextAttempt(url_i, attempt, config.max_retries, FALSE)[1]
    /\ attempt' = NextAttempt(url_i, attempt, config.max_retries, FALSE)[2]
    /\ UNCHANGED <<config, entries, pc, diffVars, enrichVars, peerVars, loadVars,
                   ingestVars>>

\* The outer loop is exhausted: return entries
ReturnEntries ==
    /\ pc = "scraping"
    /\ url_i > Len(config.fund_urls)
    /\ pc' = "returned"
    /\ UNCHANGED <<scrapeVars, diffVars, enrichVars, peerVars, loadVars, ingestVars>>

NextScrape == ScrapeSucceeds \/ ScrapeFails \/ ReturnEntries

\* requests time out and time.sleep returns, so the loop always takes its
\* next step.
SpecScrape == InitScrape /\ [][NextScrape]_vars /\ WF_vars(NextScrape)

(***************************************************************************)
(* Properties of the peer comparison engine.                               *)
(***************************************************************************)
Called(fn) == pc = "called" /\ result.fn = fn

NoReferenceRow == \A j \in DOMAIN peer_df : peer_df[j].is_alquity # 1
NoPeerRow == \A j \in DOMAIN peer_df : peer_df[j].is_alquity # 0

\* Every reference-side value of the returned result is empty or zero.
ReferenceSideEmpty ==
    LET out == result.out
    IN  /\ Called("holdings_overlap") => out.rows = <<>>
        /\ Called("conviction_positions") => out.rows = <<>>
        /\ Called("unique_positions") =>
              out.alquity_unique = <<>> /\ out.alquity_rare = <<>>
        /\ Called("consensus_holdings") =>
              \A j \in DOMAIN out.rows :
                  ~out.rows[j].held_by_alquity /\ out.rows[j].alquity_weight = 0
        /\ Called("country_allocation") \/ Called("sector_allocation") =>
              \A j \in DOMAIN out.comparison : out.comparison[j].alquity_weight = 0
        /\ Called("concentration_metrics") =>
              \A j \in DOMAIN out.rows : out.rows[j].is_alquity = 0
        /\ Called("active_share") =>
              /\ out.vs_consensus = FZero
              /\ out.vs_each_peer = <<>>
              /\ out.top_contributors = <<>>
        /\ Called("market_cap_analysis") =>
              /\ out.alquity_detail = <<>>
              /\ \A j \in DOMAIN out.peer_avg : out.peer_avg[j].alquity_weight = FZero

\* Every peer-average value of the returned result is zero.
PeerAveragesZero ==
    LET out == result.out
    IN  /\ Called("conviction_positions") =>
              \A j \in DOMAIN out.rows : out.rows[j].peer_avg_weight = FZero
        /\ Called("country_allocation") \/ Called("sector_allocation") =>
              \A j \in DOMAIN out.comparison : out.comparison[j].peer_avg_weight = FZero
        /\ Called("market_cap_analysis") =>
              \A j \in DOMAIN out.peer_avg : out.peer_avg[j].peer_avg_weight = FZero

\* The tickers of the reference fund and of one fund of the holding set.
ReferenceTickers == TickersOf(SplitAlquity(peer_df))
FundTickers(fund) == TickersOf(OfFund(peer_df, fund))
PeerFunds == FundsOf(SplitPeers(peer_df))

\* The summed weight of the rows of fund whose ticker is in T.
WeightOver(fund, T) ==
    SumWeight(SelectSeq(peer_df, LAMBDA r : r.fund_name = fund /\ r.ticker \in T))
ReferenceWeightOver(T) ==
    SumWeight(SelectSeq(peer_df, LAMBDA r : r.is_alquity = 1 /\ r.ticker \in T))

\* C13: in every row of holdings_overlap, jaccard_index is the number of
\* shared tickers over the number of tickers in the union, lies in [0, 1],
\* and is 1 exactly when the reference and the peer hold the same tickers.
T_C13_Jaccard ==
    Called("holdings_overlap") =>
      \A j \in DOMAIN result.out.rows :
        LET r  == result.out.rows[j]
            pt == FundTickers(r.fund_name)
        IN  /\ r.jaccard_index = Frac(Cardinality(ReferenceTickers \cap pt),
                                      Cardinality(ReferenceTickers \cup pt))
            /\ ~FLess(r.jaccard_index, FZero)
            /\ ~FLess(FInt(1), r.jaccard_index)
            /\ r.jaccard_index = FInt(1) <=> ReferenceTickers = pt

\* Witness of C13: one peer holds the reference's tickers exactly, another
\* shares some but not all of its tickers with the reference.
W_C13_Jaccard ==
    /\ Called("holdings_overlap")
    /\ \E j \in DOMAIN result.out.rows : result.out.rows[j].jaccard_index = FInt(1)
    /\ \E j \in DOMAIN result.out.rows :
         /\ FLess(FZero, result.out.rows[j].jaccard_index)
         /\ FLess(result.out.rows[j].jaccard_index, FInt(1))

\* The worked example of holdings_overlap: reference {A: 10, B: 5} and one
\* peer {A: 6, C: 4}.
OverlapExample ==
    << PeerRow("Alquity", "A", 10), PeerRow("Alquity", "B", 5),
       PeerRow("Peer1", "A", 6), PeerRow("Peer1", "C", 4) >>

\* C14: holdings_overlap returns nothing when the reference has no rows;
\* otherwise one row per distinct peer fund, with overlap_count the number
\* of tickers both hold and the two overlap weights the reference's and the
\* peer's summed weight over those tickers (0 when none is shared), rows
\* in descending overlap_count.  The worked example gives 1, 1/3, 10, 6.
T_C14_OverlapRows ==
    /\ Called("holdings_overlap") =>
          LET rows == result.out.rows
          IN  IF ReferenceTickers = {} THEN rows = <<>>
              ELSE /\ Len(rows) = Cardinality(PeerFunds)
                   /\ { rows[j].fund_name : j \in DOMAIN rows } = PeerFunds
                   /\ \A j \in DOMAIN rows :
                        LET shared == ReferenceTickers \cap FundTickers(rows[j].fund_name)
                        IN  /\ rows[j].overlap_count = Cardinality(shared)
                            /\ rows[j].overlap_weight_alquity = ReferenceWeightOver(shared)
                            /\ rows[j].overlap_weight_peer =
                                  WeightOver(rows[j].fund_name, shared)
                            /\ shared = {} =>
                                  /\ rows[j].overlap_weight_alquity = 0
                                  /\ rows[j].overlap_weight_peer = 0
                   /\ \A i, j \in DOMAIN rows :
                        i < j => rows[i].overlap_count >= rows[j].overlap_count
    /\ LET rows == HoldingsOverlap(OverlapExample).rows
       IN  /\ Len(rows) = 1
           /\ rows[1].overlap_count = 1
           /\ rows[1].jaccard_index = Frac(1, 3)
           /\ rows[1].overlap_weight_alquity = 10
           /\ rows[1].overlap_weight_peer = 6

\* Witness of C14: two peers come out in descending overlap_count against
\* the order of their names, the first sharing a ticker held twice.
W_C14_OverlapRows ==
    /\ Called("holdings_overlap")
    /\ Len(result.out.rows) = 2
    /\ result.out.rows[1].fund_name = "Peer2"
    /\ result.out.rows[1].overlap_count = 1
    /\ result.out.rows[1].overlap_weight_alquity = 15
    /\ result.out.rows[2].fund_name = "Peer1"
    /\ result.out.rows[2].overlap_count = 0

\* C15: when the reference has rows and there are peers,
\* conviction_positions returns one row per ticker of the holding set, with
\* peer_avg_weight the peers' summed weight of the ticker over the number
\* of distinct peer funds, alquity_weight the reference's summed weight of
\* it (0 if none), active_weight their difference; the peer_avg_weight
\* column sums to the peers' total weight over the number of peer funds.
T_C15_PeerAveraging ==
    Called("conviction_positions") /\ ReferenceTickers # {} /\ PeerFunds # {} =>
      LET rows == result.out.rows
          num_peers == Cardinality(PeerFunds)
          PeerWeight(t) ==
              SumWeight(SelectSeq(peer_df, LAMBDA r : r.is_alquity = 0 /\ r.ticker = t))
      IN  /\ Len(rows) = Cardinality(TickersOf(peer_df))
          /\ { rows[j].ticker : j \in DOMAIN rows } = TickersOf(peer_df)
          /\ \A j \in DOMAIN rows :
               /\ rows[j].peer_avg_weight = Frac(PeerWeight(rows[j].ticker), num_peers)
               /\ rows[j].alquity_weight = ReferenceWeightOver({rows[j].ticker})
               /\ rows[j].active_weight =
                     FSub(FInt(rows[j].alquity_weight), rows[j].peer_avg_weight)
          /\ FSum([ j \in DOMAIN rows |-> rows[j].peer_avg_weight ]) =
                Frac(SumWeight(SplitPeers(peer_df)), num_peers)

\* Witness of C15: of three peer funds one alone holds a ticker, and the
\* reference holds a ticker no peer holds.
W_C15_PeerAveraging ==
    /\ Called("conviction_positions")
    /\ Cardinality(PeerFunds) = 3
    /\ \E j \in DOMAIN result.out.rows :
         /\ result.out.rows[j].peer_holder_count = 1
         /\ result.out.rows[j].alquity_weight = 0
    /\ \E j \in DOMAIN result.out.rows :
         /\ result.out.rows[j].peer_holder_count = 2
         /\ result.out.rows[j].alquity_weight > 0

\* The position of the first row of the holding set that has the ticker.
FirstIndex(ticker) ==
    CHOOSE i \in DOMAIN peer_df :
        /\ peer_df[i].ticker = ticker
        /\ \A k \in 1..(i - 1) : peer_df[k].ticker # ticker

\* C16 (as claimed): the rows of conviction_positions are in descending
\* |active_weight|, and rows of equal |active_weight| are in the order in
\* which their tickers first appear in the input.
CX_C16_ConvictionOrder ==
    Called("conviction_positions") =>
      LET rows == result.out.rows
      IN  \A i, j \in DOMAIN rows :
            i < j =>
              /\ ~FLess(FAbs(rows[i].active_weight), FAbs(rows[j].active_weight))
              /\ FAbs(rows[i].active_weight) = FAbs(rows[j].active_weight) =>
                    FirstIndex(rows[i].ticker) < FirstIndex(rows[j].ticker)

\* The number of distinct peer funds that hold the ticker.
PeerHolders(ticker) ==
    Cardinality({ f \in PeerFunds : ticker \in FundTickers(f) })

\* The identifying columns of a holding row.
RowKey(r) == <<r.fund_name, r.ticker, r.weight>>

\* The number of rows of s with the identifying columns k.
Occurrences(s, k) == Cardinality({ i \in DOMAIN s : RowKey(s[i]) = k })

\* s holds exactly the rows of the holding set that satisfy Keep.
ExactlyRows(s, keep) ==
    /\ Len(s) = Cardinality({ i \in DOMAIN peer_df : keep[i] })
    /\ \A i \in DOMAIN peer_df :
          Occurrences(s, RowKey(peer_df[i])) =
            Cardinality({ k \in DOMAIN peer_df :
                            keep[k] /\ RowKey(peer_df[k]) = RowKey(peer_df[i]) })

WeightDescending(s) == \A i, j \in DOMAIN s : i < j => s[i].weight >= s[j].weight

\* C17: alquity_unique is exactly the reference rows whose ticker no peer
\* fund holds, alquity_rare exactly the reference rows whose ticker at most
\* two distinct peer funds hold (so every unique row is a rare row), each
\* rare row's peer_count is the number of distinct peer funds holding its
\* ticker, and both tables are in descending weight.
T_C17_UniqueAndRare ==
    Called("unique_positions") =>
      LET unique == result.out.alquity_unique
          rare   == result.out.alquity_rare
      IN  /\ ExactlyRows(unique, [ i \in DOMAIN peer_df |->
                /\ peer_df[i].is_alquity = 1
                /\ PeerHolders(peer_df[i].ticker) = 0 ])
          /\ ExactlyRows(rare, [ i \in DOMAIN peer_df |->
                /\ peer_df[i].is_alquity = 1
                /\ PeerHolders(peer_df[i].ticker) <= 2 ])
          /\ \A j \in DOMAIN unique :
                Occurrences(unique, RowKey(unique[j])) <= Occurrences(rare, RowKey(unique[j]))
          /\ \A j \in DOMAIN rare : rare[j].peer_count = PeerHolders(rare[j].ticker)
          /\ \A j \in DOMAIN rare :
                Occurrences(unique, RowKey(rare[j])) > 0 => rare[j].peer_count = 0
          /\ WeightDescending(unique)
          /\ WeightDescending(rare)

\* Witness of C17: the reference holds a ticker that no peer holds in its
\* first row and, at a higher weight, one that two peers hold.
W_C17_UniqueAndRare ==
    /\ Called("unique_positions")
    /\ Len(result.out.alquity_unique) = 1
    /\ Len(result.out.alquity_rare) = 2
    /\ result.out.alquity_rare[1].peer_count = 2
    /\ result.out.alquity_rare[2].peer_count = 0
    /\ result.out.alquity_rare[1].weight > result.out.alquity_rare[2].weight
    /\ RowKey(peer_df[1]) = RowKey(result.out.alquity_rare[2])

ConsensusRowsHold ==
    LET rows == result.out.rows
        Holders(t) == { f \in FundsOf(peer_df) : t \in FundTickers(f) }
        RowsOf(t) == { i \in DOMAIN peer_df : peer_df[i].ticker = t }
    IN  /\ Len(rows) = Cardinality(TickersOf(peer_df))
        /\ { rows[j].ticker : j \in DOMAIN rows } = TickersOf(peer_df)
        /\ \A j \in DOMAIN rows :
              LET t == rows[j].ticker
                  first_max == CHOOSE i \in RowsOf(t) :
                      /\ \A k \in RowsOf(t) : peer_df[k].weight <= peer_df[i].weight
                      /\ \A k \in RowsOf(t) :
                            peer_df[k].weight = peer_df[i].weight => i <= k
              IN  /\ rows[j].num_holders = Cardinality(Holders(t))
                  /\ rows[j].max_weight = peer_df[first_max].weight
                  /\ rows[j].max_weight_fund = peer_df[first_max].fund_name
                  /\ rows[j].held_by_alquity <=> t \in ReferenceTickers
                  /\ rows[j].alquity_weight = ReferenceWeightOver({t})
                  /\ FLess(FZero, rows[j].pct_of_funds)
                  /\ ~FLess(FInt(100), rows[j].pct_of_funds)
        /\ \A i, j \in DOMAIN rows :
              i < j =>
                \/ rows[i].num_holders > rows[j].num_holders
                \/ /\ rows[i].num_holders = rows[j].num_holders
                   /\ ~FLess(rows[i].avg_weight, rows[j].avg_weight)

\* num_holders / total distinct funds x 100 of row r
PctOfFunds(r) == Frac(r.num_holders * 100, Cardinality(FundsOf(peer_df)))

\* C19 (amended): consensus_holdings has one row per ticker held by any
\* fund, with num_holders the number of distinct funds holding it,
\* pct_of_funds = num_holders / total distinct funds x 100 rounded to one
\* decimal (0 < pct_of_funds <= 100), max_weight_fund the fund of the first
\* row in input order that holds the maximum weight, held_by_alquity true
\* iff the reference holds it, alquity_weight the reference weight or 0,
\* rows in (num_holders desc, avg_weight desc).
T_C19_ConsensusHoldings ==
    Called("consensus_holdings") =>
      /\ ConsensusRowsHold
      /\ \A j \in DOMAIN result.out.rows :
            result.out.rows[j].pct_of_funds = FRound(PctOfFunds(result.out.rows[j]), 10)

\* Witness of C19: of three funds two hold a ticker at the same maximum
\* weight, the first of them in input order being the later by name, and
\* one holds another ticker, so the percentages are 66.7 and 33.3.
W_C19_ConsensusHoldings ==
    /\ Called("consensus_holdings")
    /\ Cardinality(FundsOf(peer_df)) = 3
    /\ Len(result.out.rows) = 2
    /\ result.out.rows[1].num_holders = 2
    /\ result.out.rows[1].max_weight_fund = "Peer2"
    /\ \E i \in DOMAIN peer_df :
         /\ peer_df[i].fund_name = "Peer1"
         /\ peer_df[i].ticker = result.out.rows[1].ticker
         /\ peer_df[i].weight = result.out.rows[1].max_weight
    /\ result.out.rows[1].pct_of_funds = Frac(667, 10)
    /\ result.out.rows[2].pct_of_funds = Frac(333, 10)

\* C19 (as claimed): the same, with pct_of_funds equal to num_holders /
\* total distinct funds x 100.
CX_C19_ConsensusHoldings ==
    Called("consensus_holdings") =>
      /\ ConsensusRowsHold
      /\ \A j \in DOMAIN result.out.rows :
            result.out.rows[j].pct_of_funds = PctOfFunds(result.out.rows[j])

\* C20 (as claimed): every row of sector_allocation's comparison is a
\* non-empty sector, its peer_avg_weight is the peers' summed weight in the
\* rows of that sector over the number of distinct peer funds of the
\* holding set (those without any sector data included), and its
\* active_weight is alquity_weight - peer_avg_weight.
CX_C20_SectorPeerAverage ==
    Called("sector_allocation") =>
      LET rows == result.out.comparison
          num_peers == Cardinality(PeerFunds)
          PeerSectorWeight(sec) ==
              SumWeight(SelectSeq(peer_df,
                  LAMBDA r : r.is_alquity = 0 /\ r.gics_sector = sec))
      IN  \A j \in DOMAIN rows :
            /\ rows[j].key # NoneStr /\ rows[j].key # ""
            /\ rows[j].peer_avg_weight =
                  (IF num_peers > 0 THEN Frac(PeerSectorWeight(rows[j].key), num_peers)
                   ELSE FZero)
            /\ rows[j].active_weight =
                  FSub(FInt(rows[j].alquity_weight), rows[j].peer_avg_weight)

\* C21 (as claimed): in every row of concentration_metrics (a fund with
\* total weight > 0) hhi lies in (0, 10000] and is 10000 exactly when the
\* fund has one position, and effective_positions is exactly 10000 over
\* the reported hhi.
CX_C21_Concentration ==
    Called("concentration_metrics") =>
      \A j \in DOMAIN result.out.rows :
        LET r == result.out.rows[j]
        IN  /\ FLess(FZero, r.hhi)
            /\ ~FLess(FInt(10000), r.hhi)
            /\ r.hhi = FInt(10000) <=> r.num_positions = 1
            /\ r.effective_positions = FDiv(FInt(10000), r.hhi)

\* The summed weight of the peer rows whose ticker is in T.
PeerWeightOver(T) ==
    SumWeight(SelectSeq(peer_df, LAMBDA r : r.is_alquity = 0 /\ r.ticker \in T))

\* The reference weights and the consensus weights, each normalized to sum
\* to 100, agree on every ticker (both totals positive).
SameNormalizedWeights ==
    LET all == TickersOf(peer_df)
    IN  \A t \in all :
          ReferenceWeightOver({t}) * PeerWeightOver(all) =
            PeerWeightOver({t}) * ReferenceWeightOver(all)

\* C22 (as claimed): the active share against the consensus lies in
\* [0, 100] and is 0 exactly when the normalized reference weights and the
\* normalized consensus weights are the same for every ticker.
CX_C22_ActiveShareZero ==
    Called("active_share") /\ ~result.out.raised /\ ~NoReferenceRow =>
      /\ ~FLess(result.out.vs_consensus, FZero)
      /\ ~FLess(FInt(100), result.out.vs_consensus)
      /\ result.out.vs_consensus = FZero <=> SameNormalizedWeights

\* C23: market_cap_analysis gives every row exactly one bucket: Unknown when
\* the market cap is missing, Large Cap from 10000 (millions) up, Mid Cap
\* from 2500 up to but not including 10000, Small Cap below 2500; so 10000
\* is Large Cap, 2500 is Mid Cap and 2499.99 is Small Cap.
T_C23_CapBucket ==
    Called("market_cap_analysis") /\ ~result.out.raised /\ NoPeerRow =>
      LET detail == result.out.alquity_detail
      IN  /\ Len(detail) = Len(peer_df)
          /\ \A j \in DOMAIN detail :
                LET mc == detail[j].market_cap_usd
                    b  == detail[j].cap_bucket
                IN  /\ Cardinality({ i \in DOMAIN Buckets : Buckets[i] = b }) = 1
                    /\ b = "Unknown" <=> mc = Null
                    /\ b = "Large Cap" <=> mc # Null /\ Val(mc) >= 1000000
                    /\ b = "Mid Cap" <=>
                          mc # Null /\ Val(mc) >= 250000 /\ Val(mc) < 1000000
                    /\ b = "Small Cap" <=> mc # Null /\ Val(mc) < 250000

\* The three boundary values met their buckets in one call.
W_C23_CapBucket ==
    /\ Called("market_cap_analysis") /\ ~result.out.raised
    /\ Len(result.out.alquity_detail) = 3
    /\ \E i, j, k \in DOMAIN result.out.alquity_detail :
         LET detail == result.out.alquity_detail
         IN  /\ detail[i].market_cap_usd = Some(1000000) /\ detail[i].cap_bucket = "Large Cap"
             /\ detail[j].market_cap_usd = Some(250000) /\ detail[j].cap_bucket = "Mid Cap"
             /\ detail[k].market_cap_usd = Some(249999) /\ detail[k].cap_bucket = "Small Cap"

\* The position in the window of the date of an output row.
DateIndex(r) == CHOOSE i \in DOMAIN dates : dates[i] = r.log_date

\* The output row stands for no input fact: its key has no fact at its date.
Synthesized(r) == KeyOf(r) \notin InKeys(DateIndex(r))

T_C28_RemovedOnce ==
    Diffed =>
      \A i \in 2..Len(dates) : \A k \in InKeys(i - 1) \ InKeys(i) :
        /\ Len(OutRowsFor(i, k)) = 1
        /\ OutRowsFor(i, k)[1].is_removed
        /\ i < Len(dates) =>
              IF k \in InKeys(i + 1)
              THEN /\ Len(OutRowsFor(i + 1, k)) = 1
                   /\ OutRowsFor(i + 1, k)[1].prev_percentage = Null
                   /\ OutRowsFor(i + 1, k)[1].is_new
                   /\ ~OutRowsFor(i + 1, k)[1].is_removed
              ELSE OutRowsFor(i + 1, k) = <<>>

\* A diffed window of three dates in which one key of the oldest date stays
\* away at both later dates and another is away at the second date and
\* back at the third.
W_C28_RemovedOnce ==
    /\ pc = "diffed"
    /\ Len(dates) = 3
    /\ \E k \in InKeys(1) : k \notin InKeys(2) /\ k \notin InKeys(3)
    /\ \E k \in InKeys(1) : k \notin InKeys(2) /\ k \in InKeys(3)

\* The kind of a character when the encoding of dashes and spaces is set
\* aside.
CharKind(c) ==
    IF c \in {"-", "EN DASH", "EM DASH", "FIGURE DASH", "HORIZONTAL BAR"} THEN "dash"
    ELSE IF c \in {" ", "NO-BREAK SPACE"} THEN "space"
    ELSE c

\* Two stored names differ at most by the encoding of dashes and spaces.
SameFund(a, b) ==
    /\ Len(a) = Len(b)
    /\ \A j \in DOMAIN a : CharKind(a[j]) = CharKind(b[j])

\* The deduplication key of a row as read, under the normalized fund name.
FetchedKey(r) ==
    <<r.log_date, NormalizeFundName(r.fund_name), r.category, r.company_sector>>

\* C26: after get_comparison_data has read the facts, the frame handed to
\* the diff holds for every (log_date, normalized fund_name, category,
\* item) of the rows read exactly one fact, the first one read with that
\* key, and rows read whose fund names differ only by the encoding of
\* dashes and spaces fall under the same key.
T_C26_KeepFirst ==
    pc = "compared" =>
      /\ \A i, j \in DOMAIN df : i # j => DedupKey(df[i]) # DedupKey(df[j])
      /\ \A j \in DOMAIN fetched :
            LET first == CHOOSE i \in DOMAIN fetched :
                           /\ FetchedKey(fetched[i]) = FetchedKey(fetched[j])
                           /\ \A k \in 1..(i - 1) :
                                 FetchedKey(fetched[k]) # FetchedKey(fetched[j])
            IN  \E d \in DOMAIN df :
                  /\ DedupKey(df[d]) = FetchedKey(fetched[j])
                  /\ df[d].percentage = fetched[first].percentage
                  /\ df[d].date_of_data = fetched[first].date_of_data
                  /\ df[d].url = fetched[first].url
      /\ \A d \in DOMAIN df :
            \E j \in DOMAIN fetched : FetchedKey(fetched[j]) = DedupKey(df[d])
      /\ \A i, j \in DOMAIN fetched :
            /\ SameFund(fetched[i].fund_name, fetched[j].fund_name)
            /\ fetched[i].log_date = fetched[j].log_date
            /\ fetched[i].category = fetched[j].category
            /\ fetched[i].company_sector = fetched[j].company_sector
            => FetchedKey(fetched[i]) = FetchedKey(fetched[j])

\* Two facts of one date and item were read whose fund names differ only by
\* the encoding of the dash and whose percentages differ, next to a fact of
\* another fund; the first of the two remained.
W_C26_KeepFirst ==
    /\ pc = "compared"
    /\ Len(fetched) = 3 /\ Len(df) = 2
    /\ \E i, j \in DOMAIN fetched :
         /\ i < j
         /\ fetched[i].fund_name # fetched[j].fund_name
         /\ SameFund(fetched[i].fund_name, fetched[j].fund_name)
         /\ fetched[i].log_date = fetched[j].log_date
         /\ fetched[i].category = fetched[j].category
         /\ fetched[i].percentage # fetched[j].percentage
         /\ \E d \in DOMAIN df :
               /\ DedupKey(df[d]) = FetchedKey(fetched[i])
               /\ df[d].percentage = fetched[i].percentage

\* The snapshot, peer-group, holdings and master rows of the database.
BbgRows(db) == <<db.snapshots, db.peer_groups, db.holdings, db.master_data>>

\* C29 (as claimed): a call of ingest_bloomberg_excel that raises or
\* returns 'already exists' leaves the snapshot, peer-group, holdings and
\* master rows of the database as they were before the call, also with
\* replace = true when the failure comes after the existing snapshot was
\* found.
CX_C29_IngestAtomic ==
    [][ summary'.outcome \in {"raised", "already exists"}
          => BbgRows(bbg') = BbgRows(bbg) ]_vars

\* The attempts logged for the URL at position i.
AttemptsOf(i) == SelectSeq(scrape_log, LAMBDA a : a.i = i)

\* The entries returned by the successful attempts, in the order of the log.
RECURSIVE EntriesOfLog(_)
EntriesOfLog(log) ==
    IF log = <<>> THEN <<>>
    ELSE (IF Head(log).ok THEN Head(log).fund_entries ELSE <<>>) \o EntriesOfLog(Tail(log))

\* The attempts so far are in configuration order and numbered from 1 for
\* each URL, none beyond max_retries; after a success the URL is not tried
\* again; a URL that was left without success was tried max_retries times;
\* the collected entries are those of the successful attempts, once each.
ScrapeOrderly ==
    /\ \A j, k \in DOMAIN scrape_log :
          j < k => scrape_log[j].i <= scrape_log[k].i
    /\ \A i \in 1..Len(config.fund_urls) :
          LET tries == AttemptsOf(i)
          IN  /\ \A n \in DOMAIN tries : tries[n].attempt = n
              /\ Len(tries) <= config.max_retries
              /\ \A n \in DOMAIN tries : tries[n].ok => n = Len(tries)
              /\ i < url_i =>
                    /\ Len(tries) >= 1
                    /\ ~tries[Len(tries)].ok => Len(tries) = config.max_retries
              /\ i > url_i => tries = <<>>
    /\ \A j \in DOMAIN scrape_log : scrape_log[j].i \in 1..Len(config.fund_urls)
    /\ entries = EntriesOfLog(scrape_log)
    /\ pc = "returned" => url_i = Len(config.fund_urls) + 1

BucketWeight(fund, b) ==
    SumWeight(SelectSeq(peer_df, LAMBDA r :
                 r.fund_name = fund /\ CapBucket(r.market_cap_usd) = b))

\* The mean of the values of a non-empty sequence of fractions.
MeanOf(values) == FDiv(FSum(values), FInt(Len(values)))

\* C24 (as claimed): in market_cap_analysis the value of a fund and bucket
\* is the bucket's share of the fund's total weight in percent, the peer
\* average of a bucket is the simple mean of the peer funds' percentages,
\* and the active weight is the reference percentage minus that mean.
CX_C24_BucketShares ==
    Called("market_cap_analysis") /\ ~result.out.raised =>
      LET rows  == result.out.comparison
          peers == SelectSeq(rows, LAMBDA r : r.is_alquity = 0)
      IN  /\ \A i \in DOMAIN rows : \A j \in DOMAIN Buckets :
                WeightOver(rows[i].fund_name, Tickers) > 0 =>
                  rows[i].share[j] =
                    Frac(BucketWeight(rows[i].fund_name, Buckets[j]) * 100,
                         WeightOver(rows[i].fund_name, Tickers))
          /\ \A j \in DOMAIN Buckets :
                LET avg == result.out.peer_avg[j]
                IN  /\ peers # <<>> =>
                          avg.peer_avg_weight =
                            MeanOf([ x \in DOMAIN peers |-> peers[x].share[j] ])
                    /\ avg.active_weight =
                          FSub(avg.alquity_weight, avg.peer_avg_weight)

\* C24 (amended): in market_cap_analysis the value of a fund and bucket is
\* the bucket's share of the fund's total weight in percent, rounded to two
\* decimals; the peer average of a bucket is the simple mean of the peer
\* funds' reported percentages (0 without peers), rounded to two decimals;
\* the active weight is the reference percentage (0 without reference)
\* minus the peer average, rounded to two decimals.
T_C24_BucketShares ==
    Called("market_cap_analysis") /\ ~result.out.raised =>
      LET rows  == result.out.comparison
          peers == SelectSeq(rows, LAMBDA r : r.is_alquity = 0)
          ref   == SelectSeq(rows, LAMBDA r : r.is_alquity = 1)
      IN  /\ \A i \in DOMAIN rows : \A j \in DOMAIN Buckets :
                WeightOver(rows[i].fund_name, Tickers) > 0 =>
                  rows[i].share[j] =
                    FRound(Frac(BucketWeight(rows[i].fund_name, Buckets[j]) * 100,
                                WeightOver(rows[i].fund_name, Tickers)), 100)
          /\ \A j \in DOMAIN Buckets :
                LET avg == result.out.peer_avg[j]
                IN  /\ avg.cap_bucket = Buckets[j]
                    /\ avg.alquity_weight =
                          IF ref # <<>> THEN ref[1].share[j] ELSE FZero
                    /\ avg.peer_avg_weight =
                          IF peers # <<>>
                          THEN FRound(MeanOf([ x \in DOMAIN peers |-> peers[x].share[j] ]), 100)
                          ELSE FZero
                    /\ avg.active_weight =
                          FRound(FSub(avg.alquity_weight, avg.peer_avg_weight), 100)

\* A reference fund and two peer funds of different total weight were
\* analysed, and the peer average of Large Cap is not the peers' pooled
\* Large Cap weight over their pooled total weight.
W_C24_BucketShares ==
    /\ Called("market_cap_analysis") /\ ~result.out.raised
    /\ ~NoReferenceRow
    /\ Cardinality(PeerFunds) = 2
    /\ \E f, g \in PeerFunds : WeightOver(f, Tickers) < WeightOver(g, Tickers)
    /\ result.out.peer_avg[1].peer_avg_weight #
         FRound(Frac(100 * SumWeight(SelectSeq(peer_df, LAMBDA r :
                        r.is_alquity = 0 /\ CapBucket(r.market_cap_usd) = "Large Cap")),
                     PeerWeightOver(Tickers)), 100)
    /\ result.out.peer_avg[1].active_weight # FZero

\* C25 (as claimed): a call of the engine leaves the collections passed to
\* it as they were and returns a newly constructed collection, never the
\* object it was given, also when the input is empty.
CX_C25_Purity ==
    [][ /\ holdings_df' = holdings_df
        /\ master_df' = master_df
        /\ peer_df' = peer_df
        /\ df' = df
        /\ pc' = "enriched" => ~enriched'.same_object ]_vars

\* C8 (as claimed): when the holding set has no reference row (the empty
\* set included), each of the nine functions returns without raising and
\* what it returns is empty or zero-valued on the reference side.
CX_C8_MissingReference ==
    pc = "called" /\ NoReferenceRow =>
        /\ ~result.out.raised
        /\ ReferenceSideEmpty

\* C9 (as claimed): when the reference fund has rows and there is no peer
\* row, each of the nine functions returns without raising, every peer
\* average it reports is 0, and active_share returns an empty vs_each_peer.
CX_C9_EmptyPeerSet ==
    pc = "called" /\ peer_df # <<>> /\ NoPeerRow =>
        /\ ~result.out.raised
        /\ PeerAveragesZero
        /\ Called("active_share") => result.out.vs_each_peer = <<>>

====
